---- MODULE Spec2Model ----
(***************************************************************************)
(* Model of the game session coordinator of bot.py: the Snake & Ladder     *)
(* engine (handle_sl_commands, perform_roll, advance_sl_turn,              *)
(* sl_turn_monitor, the sl_join profile reply) and the Emoji Duel engine   *)
(* (handle_emoji_duel_commands, start_duel_round, end_duel, userjoin /     *)
(* userleave).                                                            *)
(*                                                                         *)
(* Every handler of handle_sl_commands runs inside `with sl_game_lock`,    *)
(* and so do perform_roll's state update, the monitor's per-room body and  *)
(* the sl_join reply: each is one atomic action, and every state of the    *)
(* S&L specifications is a state in which sl_game_lock is free.            *)
(* Python dicts are functions whose DOMAIN is the set of keys; Python      *)
(* lists are sequences (index i of the code is i + 1 here).                *)
(*                                                                         *)
(* SpecLocks follows the same handlers one step at a time, to show which   *)
(* lock a thread holds while it blocks or writes; SpecTimers follows the   *)
(* Would You Rather game and the callbacks that fire after their session   *)
(* was deleted.                                                            *)
(***************************************************************************)
EXTENDS Integers, Sequences, FiniteSets, TLC

\* ---------------------------------------------------------------- bounds
MaxTime == 50        \* the clock stops advancing here
TickSeconds == 23    \* seconds that pass in one Tick
MaxRolls == 2        \* accepted !roll commands in one behaviour
MaxGames == 1        \* game records created in one behaviour
IdleTickSeconds == 301   \* seconds that pass in one IdleTick
MaxIdleTime == 610       \* the clock of the duel specification stops here
MaxWyrThreads == 2       \* WYR threads and end timers outstanding at a time
MaxTimerCalls == 2       \* callbacks of one kind that find no session
MaxFakes == 1            \* !fake commands handled in one behaviour
MaxStreamLag == 1        \* rounds a send_stream thread may be behind
MaxDescriptors == 2      \* profile-lookup descriptors pending at a time

\* ------------------------------------------------------- program constants
SL_TURN_DURATION_SECONDS == 45
SL_FIRST_WARNING_SECONDS == 15
SL_FINAL_WARNING_SECONDS == 30
SL_MAX_PLAYERS == 10
SL_MIN_PLAYERS == 2
SL_LAST_SQUARE == 100
SL_FIRST_SQUARE == 1
DUEL_MAX_ROUNDS == 5
DUEL_WIN_SCORE == 3
DUEL_STALE_SECONDS == 300
WYR_VOTE_DURATION == 45
WYR_STALE_SECONDS == 60

MASTERS == {"yasin"}

SNAKES_AND_LADDERS ==
    (99 :> 80) @@ (91 :> 71) @@ (85 :> 58) @@ (74 :> 30) @@ (46 :> 34) @@
    (42 :> 24) @@ (9 :> 5) @@
    (3 :> 16) @@ (20 :> 38) @@ (29 :> 33) @@ (36 :> 98) @@ (41 :> 61) @@
    (50 :> 51) @@ (55 :> 72) @@ (88 :> 95)

\* random.randint(1, 6): the faces the model draws.  From square 97 they
\* are a roll that lands on the snake at 99, a roll that reaches 100
\* exactly and a roll that overshoots it.
Dice == {2, 3, 6}

\* ------------------------------------------------------------ environment
Rooms == {"r1"}
Users == {"Yasin", "bob", "cat"}
Fillers == {"f1", "f2", "f3", "f4", "f5", "f6", "f7", "f8", "f9"}

\* str.lower() on the user names of the model
Lower(n) == CASE n = "Yasin" -> "yasin" [] OTHER -> n

\* the UserID the chat service reports for a user name
UserIdOf(n) ==
    CASE Lower(n) = "yasin" -> "101" [] Lower(n) = "bob" -> "102"
      [] Lower(n) = "cat" -> "103" [] OTHER -> "199"

None == "None"

\* squares of the mid-game initial states: not a key of SNAKES_AND_LADDERS,
\* so a player can stand on it
EndgameSquares == {97}

VARIABLES
    now,                      \* time.time()
    occupants,                \* the users who are in each room
    sl_game_state,            \* bot_state.sl_game_state: room_id -> game
    profile_request_context,  \* bot_state.profile_request_context
    roll_threads,             \* perform_roll threads started and not yet run
    board_threads,            \* generate_and_send_initial_board threads
    roll_count,               \* perform_roll threads started so far
    game_count,               \* game records created so far
    game_over_sent,           \* final standings the game-over sequence showed
    sl_replies,               \* replies sent by handle_sl_commands and by
                              \* the profile handler, per room
    emoji_duel_state,         \* bot_state.emoji_duel_state: room_id -> duel
    emoji_duel_lock,          \* "free" or the thread that holds the lock
    duel_announced,           \* what end_duel sent to the room last
    duel_sent,                \* round and inactivity notices sent, in order
    recv,                     \* where the receive thread (on_message) is
    sl_game_lock,             \* "free" or the thread that holds the lock
    presence_lock,            \* "free" or the thread that holds the lock
    thread_at,                \* the code path and the step each thread is in
    wyr_game_state,           \* bot_state.wyr_game_state: room_id -> game
    wyr_threads,              \* generate_and_start threads running, by room
    wyr_timers,               \* when the end_wyr_game timers not yet fired
                              \* are due, by room, in the order of their start
    timer_calls,              \* callbacks that found their session deleted
    timer_error               \* the exception the last callback ended with

slvars == <<sl_game_state, profile_request_context, roll_threads,
            board_threads, roll_count, game_count, game_over_sent,
            sl_replies>>
duelvars == <<emoji_duel_state, emoji_duel_lock, duel_announced, duel_sent,
              recv>>
lockvars == <<sl_game_lock, presence_lock, thread_at>>
timervars == <<wyr_game_state, wyr_threads, wyr_timers, timer_calls,
               timer_error>>

\* the long-lived threads of the bot and one worker thread of each kind
Threads == {"recv", "cleanup", "monitor", "roll", "board"}
Workers == {"roll", "board"}

\* the callbacks that run on a timer or in a loop of their own thread
TimerKinds == {"sl_monitor", "cleanup", "wyr_end"}

\* a thread that is in none of the code paths; no lock is held and no
\* thread is in a path after BotState.__init__
NotRunning == [path |-> "none", room |-> None, step |-> 0]

\* on_message runs every handler to its end before it reads the next
\* message: a handler starts only when the receive thread is not inside one
Idle == [op |-> "idle"]
ReceiverIdle == recv = Idle

\* ------------------------------------------------------------ dict helpers
DictDel(f, k) == [x \in DOMAIN f \ {k} |-> f[x]]
DictSet(f, k, v) == [x \in DOMAIN f \cup {k} |-> IF x = k THEN v ELSE f[x]]
EmptyDict == [x \in {} |-> {}]

Perms(S) ==
    {f \in [1..Cardinality(S) -> S] :
        \A i, j \in 1..Cardinality(S) : i # j => f[i] # f[j]}

\* ------------------------------------------------------ Snake & Ladder
PlayingKeys(game) ==
    {k \in DOMAIN game.players : game.players[k].status = "playing"}

NewPlayer(uid) ==
    [userid |-> uid, position |-> SL_FIRST_SQUARE, status |-> "playing",
     rank |-> 0]

NewLobby(host, obj) ==
    [status |-> "lobby", host |-> host, players |-> EmptyDict,
     turn_order |-> <<>>, current_turn_index |-> 0, next_rank |-> 1,
     turn_start_time |-> 0, turn_first_warning_sent |-> FALSE,
     turn_second_warning_sent |-> FALSE, obj |-> obj]

\* advance_sl_turn returns (None, None) without touching the game
AdvanceFails(game) ==
    \/ game.status # "active"
    \/ PlayingKeys(game) = {}
    \/ SelectSeq(game.turn_order, LAMBDA k : k \in PlayingKeys(game)) = <<>>

\* advance_sl_turn that resets the turn clock but leaves turn_order as it
\* finds it
AdvanceSlTurn_KeepOrder(game, t) ==
    [game EXCEPT
       !.current_turn_index =
           IF game.current_turn_index >= Len(game.turn_order)
           THEN 0 ELSE game.current_turn_index,
       !.turn_start_time = t,
       !.turn_first_warning_sent = FALSE,
       !.turn_second_warning_sent = FALSE]

\* advance_sl_turn when it does not return early
\* advance_sl_turn that turns the order round so that the next player
\* comes first
AdvanceSlTurn_Rotate(game, t) ==
    LET current_turn_order ==
            SelectSeq(game.turn_order, LAMBDA k : k \in PlayingKeys(game))
        n == Len(current_turn_order)
        first == IF game.current_turn_index >= n
                 THEN 0 ELSE game.current_turn_index
    IN [game EXCEPT
          !.turn_order =
              [i \in 1..n |-> current_turn_order[((i - 1 + first) % n) + 1]],
          !.current_turn_index = 0,
          !.turn_start_time = t,
          !.turn_first_warning_sent = FALSE,
          !.turn_second_warning_sent = FALSE]

AdvanceSlTurn(game, t) ==
    LET current_turn_order ==
            SelectSeq(game.turn_order, LAMBDA k : k \in PlayingKeys(game))
    IN [game EXCEPT
          !.turn_order = current_turn_order,
          !.current_turn_index =
              IF game.current_turn_index >= Len(current_turn_order)
              THEN 0 ELSE game.current_turn_index,
          !.turn_start_time = t,
          !.turn_first_warning_sent = FALSE,
          !.turn_second_warning_sent = FALSE]

\* the snake / ladder lookup of perform_roll
\* a board without snakes and ladders
Remap_None(new_pos) == new_pos

Remap(new_pos) ==
    IF new_pos \in DOMAIN SNAKES_AND_LADDERS
    THEN SNAKES_AND_LADDERS[new_pos] ELSE new_pos

\* perform_roll that stores the square reached instead of square 100
PlayerAfterRoll_NoClamp(player_data, rolled, next_rank) ==
    LET new_pos == Remap(player_data.position + rolled)
    IN IF new_pos >= SL_LAST_SQUARE
       THEN [player_data EXCEPT !.position = new_pos,
                                !.status = "finished", !.rank = next_rank]
       ELSE [player_data EXCEPT !.position = new_pos]

\* the roller's player record after perform_roll moved it
PlayerAfterRoll(player_data, rolled, next_rank) ==
    LET new_pos == Remap(player_data.position + rolled)
    IN IF new_pos >= SL_LAST_SQUARE
       THEN [player_data EXCEPT !.position = SL_LAST_SQUARE,
                                !.status = "finished", !.rank = next_rank]
       ELSE [player_data EXCEPT !.position = new_pos]

\* `del bot_state.sl_game_state[room_id]` as the result of an operation
Deleted == [status |-> "deleted"]

\* what the !roll handler does with a command of `sender` on `game`
RollOutcome(game, sender) ==
    IF game.status # "active" THEN "ignored"
    ELSE IF game.current_turn_index >= Len(game.turn_order) THEN "IndexError"
    ELSE IF Lower(sender) # game.turn_order[game.current_turn_index + 1]
         THEN "not_your_turn"
    ELSE "accepted"

\* the game record when perform_roll has moved the roller and stepped
\* current_turn_index
RollApplied(game, sender_lower, rolled) ==
    LET moved == PlayerAfterRoll(game.players[sender_lower], rolled,
                                 game.next_rank)
    IN [game EXCEPT
          !.players[sender_lower] = moved,
          !.next_rank = IF moved.status = "finished"
                        THEN game.next_rank + 1 ELSE game.next_rank,
          !.current_turn_index = game.current_turn_index + 1]

\* the end of a game that gives the last playing player no rank
FinalStandings_Unranked(game) == game

\* the record handed to _end_sl_game_and_send_results, which shows its
\* players: the one player who is still playing, if there is one, is
\* finished with rank next_rank
FinalStandings(game) ==
    [game EXCEPT
       !.players = [k \in DOMAIN game.players |->
                      IF game.players[k].status = "playing"
                      THEN [game.players[k] EXCEPT
                              !.status = "finished", !.rank = game.next_rank]
                      ELSE game.players[k]]]

\* game_over_sent after an operation that left `game` behind: the game-over
\* sequence runs when at most one player is still playing
GameOverSent(room_id, game) ==
    IF Cardinality(PlayingKeys(game)) <= 1
    THEN Append(game_over_sent,
                [room_id |-> room_id,
                 players |-> FinalStandings(game).players])
    ELSE game_over_sent

\* the game record perform_roll leaves behind, or "deleted"
GameAfterRoll(game, sender_lower, rolled, t) ==
    LET g1 == RollApplied(game, sender_lower, rolled)
    IN IF Cardinality(PlayingKeys(g1)) <= 1 THEN Deleted
       ELSE IF AdvanceFails(g1) THEN Deleted
       ELSE AdvanceSlTurn(g1, t)

\* !quit / !kick that removes the player and leaves the turn clock and the
\* warning flags alone
GameAfterRemoval_NoAdvance(game, key, t) ==
    LET g1 == [game EXCEPT
                 !.players = DictDel(game.players, key),
                 !.turn_order = SelectSeq(game.turn_order,
                                          LAMBDA p : p # key)]
        g2 == [g1 EXCEPT
                 !.current_turn_index =
                     IF g1.current_turn_index >= Len(g1.turn_order)
                     THEN 0 ELSE g1.current_turn_index]
    IN IF Cardinality(PlayingKeys(g1)) < SL_MIN_PLAYERS THEN Deleted
       ELSE g2

\* !quit / !kick that cancels the game only when nobody is left playing
GameAfterRemoval_KeepGame(game, key, t) ==
    LET was_their_turn ==
            game.turn_order[game.current_turn_index + 1] = key
        g1 == [game EXCEPT
                 !.players = DictDel(game.players, key),
                 !.turn_order = SelectSeq(game.turn_order,
                                          LAMBDA p : p # key)]
        g2 == [g1 EXCEPT
                 !.current_turn_index =
                     IF g1.current_turn_index >= Len(g1.turn_order)
                     THEN 0 ELSE g1.current_turn_index]
    IN IF Cardinality(PlayingKeys(g1)) < 1 THEN Deleted
       ELSE IF ~was_their_turn THEN g1
       ELSE IF AdvanceFails(g2) THEN g2
       ELSE AdvanceSlTurn(g2, t)

\* the game record after `key` was removed by !quit or !kick, or "deleted"
GameAfterRemoval(game, key, t) ==
    LET was_their_turn ==
            game.turn_order[game.current_turn_index + 1] = key
        g1 == [game EXCEPT
                 !.players = DictDel(game.players, key),
                 !.turn_order = SelectSeq(game.turn_order,
                                          LAMBDA p : p # key)]
        g2 == [g1 EXCEPT
                 !.current_turn_index =
                     IF g1.current_turn_index >= Len(g1.turn_order)
                     THEN 0 ELSE g1.current_turn_index]
    IN IF Cardinality(PlayingKeys(g1)) < SL_MIN_PLAYERS THEN Deleted
       ELSE IF ~was_their_turn THEN g1
       ELSE IF AdvanceFails(g2) THEN g2
       ELSE AdvanceSlTurn(g2, t)

\* the monitor's pass reaches `elif time_elapsed >
\* Config.SL_TURN_DURATION_SECONDS` and takes it
MonitorEliminates(game, t) ==
    /\ ~(t - game.turn_start_time > SL_FIRST_WARNING_SECONDS
           /\ ~game.turn_first_warning_sent)
    /\ ~(t - game.turn_start_time > SL_FINAL_WARNING_SECONDS
           /\ ~game.turn_second_warning_sent)
    /\ t - game.turn_start_time > SL_TURN_DURATION_SECONDS

\* `del game["players"][current_player_lkey]` of the monitor
EliminationApplied(game, key) ==
    [game EXCEPT !.players = DictDel(game.players, key)]

\* an elimination that ends the game only when nobody is left playing
GameAfterElimination_KeepLast(game, key, t) ==
    LET g1 == EliminationApplied(game, key)
        g2 == [g1 EXCEPT
                 !.turn_order = SelectSeq(g1.turn_order, LAMBDA p : p # key)]
        g3 == [g2 EXCEPT
                 !.current_turn_index =
                     IF g2.current_turn_index >= Len(g2.turn_order)
                     THEN 0 ELSE g2.current_turn_index]
    IN IF Cardinality(PlayingKeys(g1)) < 1 THEN Deleted
       ELSE IF AdvanceFails(g3) THEN Deleted
       ELSE AdvanceSlTurn(g3, t)

\* the game record after the monitor eliminated `key`, or "deleted"
GameAfterElimination(game, key, t) ==
    LET g1 == EliminationApplied(game, key)
        g2 == [g1 EXCEPT
                 !.turn_order = SelectSeq(g1.turn_order, LAMBDA p : p # key)]
        g3 == [g2 EXCEPT
                 !.current_turn_index =
                     IF g2.current_turn_index >= Len(g2.turn_order)
                     THEN 0 ELSE g2.current_turn_index]
    IN IF Cardinality(PlayingKeys(g1)) <= 1 THEN Deleted
       ELSE IF AdvanceFails(g3) THEN Deleted
       ELSE AdvanceSlTurn(g3, t)

\* sl_replies after reply_func(text) in room_id
Replied(room_id, text) ==
    sl_replies \cup {[room_id |-> room_id, text |-> text]}

\* sl_replies after !quit or !kick removed `key`: "Not enough players left.
\* The game has been cancelled." is sent when the record is deleted
RemovalReplies(room_id, game, key, t) ==
    IF GameAfterRemoval(game, key, t).status = "deleted"
    THEN Replied(room_id, "Not enough players left")
    ELSE sl_replies

PutGame(room_id, result) ==
    sl_game_state' =
        IF result.status = "deleted" THEN DictDel(sl_game_state, room_id)
        ELSE DictSet(sl_game_state, room_id, result)

\* !sl 1
SlOpen(room_id, sender) ==
    /\ ReceiverIdle
    /\ sender \in occupants[room_id]
    /\ Lower(sender) \in MASTERS
    /\ room_id \notin DOMAIN sl_game_state
    /\ game_count < MaxGames
    /\ game_count' = game_count + 1
    /\ sl_game_state' =
           DictSet(sl_game_state, room_id, NewLobby(sender, game_count + 1))
    /\ UNCHANGED <<now, occupants, duelvars, lockvars, timervars, game_over_sent,
                   sl_replies,
                   profile_request_context, roll_threads,
                   board_threads, roll_count>>

\* !sl 0
SlClose(room_id, sender) ==
    /\ ReceiverIdle
    /\ sender \in occupants[room_id]
    /\ Lower(sender) \in MASTERS
    /\ room_id \in DOMAIN sl_game_state
    /\ sl_game_state' = DictDel(sl_game_state, room_id)
    /\ UNCHANGED <<now, occupants, duelvars, lockvars, timervars, game_over_sent,
                   sl_replies,
                   profile_request_context, roll_threads,
                   board_threads, roll_count, game_count>>

\* !j
Join(room_id, sender) ==
    /\ ReceiverIdle
    /\ sender \in occupants[room_id]
    /\ room_id \in DOMAIN sl_game_state
    /\ LET game == sl_game_state[room_id] IN
         /\ game.status = "lobby"
         /\ Lower(sender) \notin DOMAIN game.players
         /\ Cardinality(DOMAIN game.players) < SL_MAX_PLAYERS
    /\ profile_request_context' =
           DictSet(profile_request_context, <<Lower(sender), Lower(sender)>>,
                   [type |-> "sl_join", room_id |-> room_id,
                    requester |-> sender])
    /\ UNCHANGED <<now, occupants, duelvars, lockvars, timervars, game_over_sent,
                   sl_replies,
                   sl_game_state, roll_threads,
                   board_threads, roll_count, game_count>>

\* a profile reply that inserts the player whatever the status of the game
ProfileReplySlJoin_AnyStatus(username, uid) ==
    LET profile_user_lower == Lower(username)
        matching == {key \in DOMAIN profile_request_context :
                        key[2] = profile_user_lower}
    IN /\ ReceiverIdle
       /\ matching # {}
       /\ \E key \in matching :
            LET context == profile_request_context[key]
                requester_lower == Lower(context.requester)
                room_id_sl == context.room_id
            IN /\ context.type = "sl_join"
               /\ IF room_id_sl \in DOMAIN sl_game_state
                  THEN sl_game_state' =
                         [sl_game_state EXCEPT
                            ![room_id_sl].players =
                                DictSet(@, requester_lower, NewPlayer(uid))]
                  ELSE UNCHANGED sl_game_state
               /\ profile_request_context' =
                      DictDel(profile_request_context, key)
       /\ UNCHANGED <<now, occupants, duelvars, lockvars, timervars, game_over_sent,
                      sl_replies, roll_threads, board_threads,
                      roll_count, game_count>>

\* on_message, handler == "profile", context type sl_join
ProfileReplySlJoin(username, uid) ==
    LET profile_user_lower == Lower(username)
        matching == {key \in DOMAIN profile_request_context :
                        key[2] = profile_user_lower}
    IN /\ ReceiverIdle
       /\ matching # {}
       /\ \E key \in matching :
            LET context == profile_request_context[key]
                requester_lower == Lower(context.requester)
                room_id_sl == context.room_id
            IN /\ context.type = "sl_join"
               /\ IF /\ room_id_sl \in DOMAIN sl_game_state
                     /\ sl_game_state[room_id_sl].status = "lobby"
                  THEN sl_game_state' =
                         [sl_game_state EXCEPT
                            ![room_id_sl].players =
                                DictSet(@, requester_lower, NewPlayer(uid))]
                  ELSE UNCHANGED sl_game_state
               /\ profile_request_context' =
                      DictDel(profile_request_context, key)
       /\ UNCHANGED <<now, occupants, duelvars, lockvars, timervars, game_over_sent,
                   sl_replies,
                   roll_threads, board_threads,
                      roll_count, game_count>>

\* !unjoin
Unjoin(room_id, sender) ==
    /\ ReceiverIdle
    /\ sender \in occupants[room_id]
    /\ room_id \in DOMAIN sl_game_state
    /\ sl_game_state[room_id].status = "lobby"
    /\ Lower(sender) \in DOMAIN sl_game_state[room_id].players
    /\ sl_game_state' =
           [sl_game_state EXCEPT
              ![room_id].players = DictDel(@, Lower(sender))]
    /\ UNCHANGED <<now, occupants, duelvars, lockvars, timervars, game_over_sent,
                   sl_replies,
                   profile_request_context, roll_threads,
                   board_threads, roll_count, game_count>>

\* !start that does not wait for the players' user ids
Start_NoIdCheck(room_id, sender, order) ==
    /\ ReceiverIdle
    /\ sender \in occupants[room_id]
    /\ room_id \in DOMAIN sl_game_state
    /\ LET game == sl_game_state[room_id] IN
         /\ Lower(sender) = Lower(game.host)
         /\ game.status = "lobby"
         /\ Cardinality(DOMAIN game.players) >= SL_MIN_PLAYERS
         /\ order \in Perms(DOMAIN game.players)
         /\ sl_game_state' =
                [sl_game_state EXCEPT
                   ![room_id].turn_order = order,
                   ![room_id].status = "active"]
         /\ board_threads' = board_threads \cup {game.obj}
    /\ UNCHANGED <<now, occupants, duelvars, lockvars, timervars, game_over_sent,
                   sl_replies,
                   profile_request_context, roll_threads,
                   roll_count, game_count>>

\* !start; `order` is the outcome of random.shuffle
Start(room_id, sender, order) ==
    /\ ReceiverIdle
    /\ sender \in occupants[room_id]
    /\ room_id \in DOMAIN sl_game_state
    /\ LET game == sl_game_state[room_id] IN
         /\ Lower(sender) = Lower(game.host)
         /\ game.status = "lobby"
         /\ Cardinality(DOMAIN game.players) >= SL_MIN_PLAYERS
         /\ \A k \in DOMAIN game.players : game.players[k].userid # None
         /\ order \in Perms(DOMAIN game.players)
         /\ sl_game_state' =
                [sl_game_state EXCEPT
                   ![room_id].turn_order = order,
                   ![room_id].status = "active"]
         /\ board_threads' = board_threads \cup {game.obj}
    /\ UNCHANGED <<now, occupants, duelvars, lockvars, timervars, game_over_sent,
                   sl_replies,
                   profile_request_context, roll_threads,
                   roll_count, game_count>>

\* generate_and_send_initial_board: game["turn_start_time"] = time.time()
\* on the game object the closure captured
\* an initial-board thread that stamps the turn of every game
InitialBoardSent_EveryGame(obj) ==
    /\ obj \in board_threads
    /\ board_threads' = board_threads \ {obj}
    /\ sl_game_state' =
           [r \in DOMAIN sl_game_state |->
               [sl_game_state[r] EXCEPT !.turn_start_time = now]]
    /\ UNCHANGED <<now, occupants, duelvars, lockvars, timervars, game_over_sent,
                   sl_replies,
                   profile_request_context, roll_threads,
                   roll_count, game_count>>

InitialBoardSent(obj) ==
    /\ obj \in board_threads
    /\ board_threads' = board_threads \ {obj}
    /\ sl_game_state' =
           [r \in DOMAIN sl_game_state |->
               IF sl_game_state[r].obj = obj
               THEN [sl_game_state[r] EXCEPT !.turn_start_time = now]
               ELSE sl_game_state[r]]
    /\ UNCHANGED <<now, occupants, duelvars, lockvars, timervars, game_over_sent,
                   sl_replies,
                   profile_request_context, roll_threads,
                   roll_count, game_count>>

\* !roll: the handler starts the perform_roll thread.  The handler also
\* draws `rolled`, which nothing reads before perform_roll does: the draw
\* is made where it is first read.  The cooldown of process_command is not
\* a guard: it exempts the masters and ends 5 s after the sender's last
\* command, which perform_roll can outlast
Roll(room_id, sender) ==
    /\ ReceiverIdle
    /\ sender \in occupants[room_id]
    /\ room_id \in DOMAIN sl_game_state
    /\ RollOutcome(sl_game_state[room_id], sender) = "accepted"
    /\ roll_count < MaxRolls
    /\ roll_count' = roll_count + 1
    /\ roll_threads' = roll_threads \cup
           {[tid |-> roll_count + 1, room_id |-> room_id,
             sender |-> sender, obj |-> sl_game_state[room_id].obj]}
    /\ UNCHANGED <<now, occupants, duelvars, lockvars, timervars, game_over_sent,
                   sl_replies,
                   sl_game_state,
                   profile_request_context, board_threads, game_count>>

\* how the locked section of perform_roll ends for thread th: it returns at
\* `if room_id not in bot_state.sl_game_state`, it raises KeyError at
\* game["players"][sender_lower], or it applies the roll
PerformRollOutcome(th) ==
    IF th.room_id \notin DOMAIN sl_game_state THEN "return"
    ELSE IF Lower(th.sender) \notin DOMAIN sl_game_state[th.room_id].players
    THEN "KeyError"
    ELSE "applied"

\* perform_roll from `with bot_state.sl_game_lock` on
PerformRoll(th, rolled) ==
    /\ th \in roll_threads
    /\ roll_threads' = roll_threads \ {th}
    /\ IF PerformRollOutcome(th) # "applied"
       THEN UNCHANGED <<sl_game_state, game_over_sent>>  \* the thread ends
       ELSE /\ PutGame(th.room_id,
                       GameAfterRoll(sl_game_state[th.room_id],
                                     Lower(th.sender), rolled, now))
            /\ game_over_sent' =
                  GameOverSent(th.room_id,
                               RollApplied(sl_game_state[th.room_id],
                                           Lower(th.sender), rolled))
    /\ UNCHANGED <<now, occupants, duelvars, lockvars, timervars, sl_replies,
                   profile_request_context, board_threads, roll_count,
                   game_count>>

\* !quit
Quit(room_id, sender) ==
    /\ ReceiverIdle
    /\ sender \in occupants[room_id]
    /\ room_id \in DOMAIN sl_game_state
    /\ LET game == sl_game_state[room_id] IN
         /\ game.status = "active"
         /\ Lower(sender) \in DOMAIN game.players
         /\ game.current_turn_index < Len(game.turn_order)  \* else IndexError
         /\ PutGame(room_id, GameAfterRemoval(game, Lower(sender), now))
         /\ sl_replies' = RemovalReplies(room_id, game, Lower(sender), now)
    /\ UNCHANGED <<now, occupants, duelvars, lockvars, timervars, game_over_sent,
                   profile_request_context, roll_threads,
                   board_threads, roll_count, game_count>>

\* !kick @target
Kick(room_id, sender, target) ==
    /\ ReceiverIdle
    /\ sender \in occupants[room_id]
    /\ room_id \in DOMAIN sl_game_state
    /\ LET game == sl_game_state[room_id]
           target_user_l == Lower(target)
       IN
         /\ game.status = "active"
         /\ Lower(sender) \in MASTERS \/ Lower(sender) = Lower(game.host)
         /\ target_user_l \in DOMAIN game.players
         /\ game.current_turn_index < Len(game.turn_order)  \* else IndexError
         /\ PutGame(room_id, GameAfterRemoval(game, target_user_l, now))
         /\ sl_replies' = RemovalReplies(room_id, game, target_user_l, now)
    /\ UNCHANGED <<now, occupants, duelvars, lockvars, timervars, game_over_sent,
                   profile_request_context, roll_threads,
                   board_threads, roll_count, game_count>>

\* one pass of sl_turn_monitor over room_id
Monitor(room_id) ==
    /\ room_id \in DOMAIN sl_game_state
    /\ LET game == sl_game_state[room_id]
           time_elapsed == now - game.turn_start_time
       IN
         /\ game.status = "active"
         /\ game.turn_start_time # 0
         /\ game.current_turn_index < Len(game.turn_order)
         /\ LET current_player_lkey ==
                    game.turn_order[game.current_turn_index + 1]
            IN /\ current_player_lkey \in DOMAIN game.players
               /\ game.players[current_player_lkey].status = "playing"
               /\ IF /\ time_elapsed > SL_FIRST_WARNING_SECONDS
                     /\ ~game.turn_first_warning_sent
                  THEN sl_game_state' =
                         [sl_game_state EXCEPT
                            ![room_id].turn_first_warning_sent = TRUE]
                  ELSE IF /\ time_elapsed > SL_FINAL_WARNING_SECONDS
                          /\ ~game.turn_second_warning_sent
                  THEN sl_game_state' =
                         [sl_game_state EXCEPT
                            ![room_id].turn_second_warning_sent = TRUE]
                  ELSE IF time_elapsed > SL_TURN_DURATION_SECONDS
                  THEN PutGame(room_id,
                               GameAfterElimination(game, current_player_lkey,
                                                    now))
                  ELSE UNCHANGED sl_game_state
               /\ game_over_sent' =
                     IF MonitorEliminates(game, now)
                     THEN GameOverSent(room_id,
                                       EliminationApplied(game,
                                                          current_player_lkey))
                     ELSE game_over_sent
    /\ UNCHANGED <<now, occupants, duelvars, lockvars, timervars, sl_replies,
                   profile_request_context, roll_threads,
                   board_threads, roll_count, game_count>>

\* the clock
Tick ==
    /\ now + TickSeconds <= MaxTime
    /\ now' = now + TickSeconds
    /\ UNCHANGED <<occupants, slvars, duelvars, lockvars, timervars>>

vars == <<now, occupants, sl_game_state, profile_request_context,
          roll_threads, board_threads, roll_count, game_count, game_over_sent,
          sl_replies, emoji_duel_state, emoji_duel_lock, duel_announced,
          duel_sent, recv,
          sl_game_lock, presence_lock, thread_at, wyr_game_state,
          wyr_threads, wyr_timers, timer_calls, timer_error>>

\* the state after BotState.__init__, with the users in the room
InitFresh ==
    /\ now = 1
    /\ occupants = [r \in Rooms |-> Users]
    /\ sl_game_state = EmptyDict
    /\ profile_request_context = EmptyDict
    /\ roll_threads = {}
    /\ board_threads = {}
    /\ roll_count = 0
    /\ game_over_sent = <<>>
    /\ sl_replies = {}
    /\ game_count = 0
    /\ emoji_duel_state = EmptyDict
    /\ emoji_duel_lock = "free"
    /\ duel_announced = [kind |-> "nothing"]
    /\ duel_sent = <<>>
    /\ recv = Idle
    /\ sl_game_lock = "free"
    /\ presence_lock = "free"
    /\ thread_at = [t \in Threads |-> NotRunning]
    /\ wyr_game_state = EmptyDict
    /\ wyr_threads = [r \in Rooms |-> 0]
    /\ wyr_timers = [r \in Rooms |-> <<>>]
    /\ timer_calls = [k \in TimerKinds |-> 0]
    /\ timer_error = None

\* the state after BotState.__init__, with Yasin and bob in the room
InitFreshPair ==
    /\ now = 1
    /\ occupants = [r \in Rooms |-> {"Yasin", "bob"}]
    /\ sl_game_state = EmptyDict
    /\ profile_request_context = EmptyDict
    /\ roll_threads = {}
    /\ board_threads = {}
    /\ roll_count = 0
    /\ game_over_sent = <<>>
    /\ sl_replies = {}
    /\ game_count = 0
    /\ emoji_duel_state = EmptyDict
    /\ emoji_duel_lock = "free"
    /\ duel_announced = [kind |-> "nothing"]
    /\ duel_sent = <<>>
    /\ recv = Idle
    /\ sl_game_lock = "free"
    /\ presence_lock = "free"
    /\ thread_at = [t \in Threads |-> NotRunning]
    /\ wyr_game_state = EmptyDict
    /\ wyr_threads = [r \in Rooms |-> 0]
    /\ wyr_timers = [r \in Rooms |-> <<>>]
    /\ timer_calls = [k \in TimerKinds |-> 0]
    /\ timer_error = None

\* a game in progress at the start of a turn: three players who have each
\* rolled the same number of times and stand on squares near the end
\* of the board; it is the last game record the behaviour creates
InitEndgame ==
    /\ now = 1
    /\ occupants = [r \in Rooms |-> Users]
    /\ \E order \in Perms({"yasin", "bob", "cat"}) :
       \E pos \in [{"yasin", "bob", "cat"} -> EndgameSquares] :
          sl_game_state =
            [r \in Rooms |->
               [status |-> "active", host |-> "Yasin",
                players |-> [k \in {"yasin", "bob", "cat"} |->
                               [userid |-> UserIdOf(k), position |-> pos[k],
                                status |-> "playing", rank |-> 0]],
                turn_order |-> order, current_turn_index |-> 0,
                next_rank |-> 1, turn_start_time |-> 1,
                turn_first_warning_sent |-> FALSE,
                turn_second_warning_sent |-> FALSE, obj |-> MaxGames]]
    /\ profile_request_context = EmptyDict
    /\ roll_threads = {}
    /\ board_threads = {}
    /\ roll_count = 0
    /\ game_over_sent = <<>>
    /\ sl_replies = {}
    /\ game_count = MaxGames
    /\ emoji_duel_state = EmptyDict
    /\ emoji_duel_lock = "free"
    /\ duel_announced = [kind |-> "nothing"]
    /\ duel_sent = <<>>
    /\ recv = Idle
    /\ sl_game_lock = "free"
    /\ presence_lock = "free"
    /\ thread_at = [t \in Threads |-> NotRunning]
    /\ wyr_game_state = EmptyDict
    /\ wyr_threads = [r \in Rooms |-> 0]
    /\ wyr_timers = [r \in Rooms |-> <<>>]
    /\ timer_calls = [k \in TimerKinds |-> 0]
    /\ timer_error = None

InitSL == InitFreshPair \/ InitEndgame

NextSL ==
    \/ \E r \in Rooms, s \in Users : SlOpen(r, s)
    \/ \E r \in Rooms, s \in Users : SlClose(r, s)
    \/ \E r \in Rooms, s \in Users : Join(r, s)
    \/ \E u \in Users : ProfileReplySlJoin(u, UserIdOf(u))
    \/ \E r \in Rooms, s \in Users : Unjoin(r, s)
    \/ \E r \in DOMAIN sl_game_state, s \in Users :
         \E order \in Perms(DOMAIN sl_game_state[r].players) :
            Start(r, s, order)
    \/ \E obj \in board_threads : InitialBoardSent(obj)
    \/ \E r \in Rooms, s \in Users : Roll(r, s)
    \/ \E th \in roll_threads, rolled \in Dice : PerformRoll(th, rolled)
    \/ \E r \in Rooms, s \in Users : Quit(r, s)
    \/ \E r \in Rooms, s \in Users, t \in Users : Kick(r, s, t)
    \/ \E r \in Rooms : Monitor(r)
    \/ Tick

SpecSL == InitSL /\ [][NextSL]_vars

\* a lobby that nine users joined before they left the room again (a player
\* stays in the lobby when he leaves the room); Yasin, bob and cat are in
\* the room
InitFullLobby ==
    /\ now = 1
    /\ occupants = [r \in Rooms |-> Users]
    /\ sl_game_state =
         [r \in Rooms |->
            [NewLobby("Yasin", 1) EXCEPT
               !.players = [k \in Fillers |-> NewPlayer(UserIdOf(k))]]]
    /\ profile_request_context = EmptyDict
    /\ roll_threads = {}
    /\ board_threads = {}
    /\ roll_count = 0
    /\ game_over_sent = <<>>
    /\ sl_replies = {}
    /\ game_count = 1
    /\ emoji_duel_state = EmptyDict
    /\ emoji_duel_lock = "free"
    /\ duel_announced = [kind |-> "nothing"]
    /\ duel_sent = <<>>
    /\ recv = Idle
    /\ sl_game_lock = "free"
    /\ presence_lock = "free"
    /\ thread_at = [t \in Threads |-> NotRunning]
    /\ wyr_game_state = EmptyDict
    /\ wyr_threads = [r \in Rooms |-> 0]
    /\ wyr_timers = [r \in Rooms |-> <<>>]
    /\ timer_calls = [k \in TimerKinds |-> 0]
    /\ timer_error = None

InitLobby == InitFresh \/ InitFullLobby

\* the lobby commands and the profile replies
NextLobby ==
    \/ \E r \in Rooms, s \in Users : SlOpen(r, s)
    \/ \E r \in Rooms, s \in Users : SlClose(r, s)
    \/ \E r \in Rooms, s \in Users : Join(r, s)
    \/ \E u \in Users : \E uid \in {UserIdOf(u), None} :
         ProfileReplySlJoin(u, uid)
    \/ \E r \in Rooms, s \in Users : Unjoin(r, s)

SpecLobby == InitLobby /\ [][NextLobby]_vars

\* !sl 1 that replaces the game record of the room
SlOpenRejected_Overwrite(room_id, sender) ==
    /\ ReceiverIdle
    /\ sender \in occupants[room_id]
    /\ Lower(sender) \in MASTERS
    /\ room_id \in DOMAIN sl_game_state
    /\ sl_game_state' =
           DictSet(sl_game_state, room_id,
                   NewLobby(sender, sl_game_state[room_id].obj))
    /\ sl_replies' = Replied(room_id, "lobby is open")
    /\ UNCHANGED <<now, occupants, duelvars, lockvars, timervars, game_over_sent,
                   profile_request_context, roll_threads,
                   board_threads, roll_count, game_count>>

\* !sl 1 in a room that has a game: `if room_id in bot_state.sl_game_state`
SlOpenRejected(room_id, sender) ==
    /\ ReceiverIdle
    /\ sender \in occupants[room_id]
    /\ Lower(sender) \in MASTERS
    /\ room_id \in DOMAIN sl_game_state
    /\ sl_replies' = Replied(room_id, "already running")
    /\ UNCHANGED <<now, occupants, duelvars, lockvars, timervars, game_over_sent,
                   sl_game_state, profile_request_context, roll_threads,
                   board_threads, roll_count, game_count>>

\* the reply of !j that ends the handler before the profile request, or
\* "joining"
JoinOutcome(game, sender) ==
    IF game.status # "lobby" THEN "already in progress"
    ELSE IF Lower(sender) \in DOMAIN game.players THEN "already joined"
    ELSE IF Cardinality(DOMAIN game.players) >= SL_MAX_PLAYERS
    THEN "game is full"
    ELSE "joining"

\* !j that returns at one of its three tests
JoinRejected(room_id, sender) ==
    /\ ReceiverIdle
    /\ sender \in occupants[room_id]
    /\ room_id \in DOMAIN sl_game_state
    /\ JoinOutcome(sl_game_state[room_id], sender) # "joining"
    /\ sl_replies' =
           Replied(room_id, JoinOutcome(sl_game_state[room_id], sender))
    /\ UNCHANGED <<now, occupants, duelvars, lockvars, timervars, game_over_sent,
                   sl_game_state, profile_request_context, roll_threads,
                   board_threads, roll_count, game_count>>

\* the reply of !start that ends the handler before the game starts, or
\* "started"
StartOutcome(game, sender) ==
    IF Lower(sender) # Lower(game.host) THEN "Only the host"
    ELSE IF game.status # "lobby" THEN "already started"
    ELSE IF Cardinality(DOMAIN game.players) < SL_MIN_PLAYERS
    THEN "less than 2 players"
    ELSE IF \E k \in DOMAIN game.players : game.players[k].userid = None
    THEN "Please wait"
    ELSE "started"

\* !start that returns at one of its four tests
StartRejected(room_id, sender) ==
    /\ ReceiverIdle
    /\ sender \in occupants[room_id]
    /\ room_id \in DOMAIN sl_game_state
    /\ StartOutcome(sl_game_state[room_id], sender) # "started"
    /\ sl_replies' =
           Replied(room_id, StartOutcome(sl_game_state[room_id], sender))
    /\ UNCHANGED <<now, occupants, duelvars, lockvars, timervars, game_over_sent,
                   sl_game_state, profile_request_context, roll_threads,
                   board_threads, roll_count, game_count>>

\* the lobby commands with their refusals, the profile replies, the start
\* of the game and the players who leave it
NextStart ==
    \/ \E r \in Rooms, s \in Users : SlOpen(r, s)
    \/ \E r \in Rooms, s \in Users : SlOpenRejected(r, s)
    \/ \E r \in Rooms, s \in Users : SlClose(r, s)
    \/ \E r \in Rooms, s \in Users : Join(r, s)
    \/ \E r \in Rooms, s \in Users : JoinRejected(r, s)
    \/ \E u \in Users : \E uid \in {UserIdOf(u), None} :
         ProfileReplySlJoin(u, uid)
    \/ \E r \in Rooms, s \in Users : Unjoin(r, s)
    \/ \E r \in DOMAIN sl_game_state, s \in Users :
         \E order \in Perms(DOMAIN sl_game_state[r].players) :
            Start(r, s, order)
    \/ \E r \in Rooms, s \in Users : StartRejected(r, s)
    \/ \E obj \in board_threads : InitialBoardSent(obj)
    \/ \E r \in Rooms, s \in Users : Quit(r, s)

SpecStart == InitFresh /\ [][NextStart]_vars

\* ---------------------------------------------------------- Emoji Duel
\* threading.Lock is not reentrant: a thread that holds emoji_duel_lock and
\* calls start_duel_round or end_duel stops at their `with
\* bot_state.emoji_duel_lock` and never leaves it.  recv then records the
\* call at which the receive thread stands, and the lock stays with it.
BlockedIn(op, room_id, caller, winner, loser) ==
    [op |-> op, room_id |-> room_id, caller |-> caller, winner |-> winner,
     loser |-> loser]

NewDuel(challenger_name, opponent_name, t) ==
    [status |-> "pending",
     p1 |-> [name |-> challenger_name, score |-> 0, userid |-> None],
     p2 |-> [name |-> opponent_name, score |-> 0, userid |-> None],
     round |-> None, cancel_requests |-> {}, last_activity |-> t]

\* !duel @opponent
DuelChallenge(room_id, sender, opponent_name) ==
    /\ ReceiverIdle
    /\ emoji_duel_lock = "free"
    /\ sender \in occupants[room_id]
    /\ room_id \notin DOMAIN emoji_duel_state
    /\ Lower(sender) # Lower(opponent_name)
    /\ emoji_duel_state' =
           DictSet(emoji_duel_state, room_id,
                   NewDuel(sender, opponent_name, now))
    /\ UNCHANGED <<now, occupants, slvars, lockvars, timervars, emoji_duel_lock,
                   duel_announced, duel_sent,
                   recv>>

\* !accept: the handler ends in start_duel_round(room_id), called with the
\* lock held
Accept(room_id, sender) ==
    /\ ReceiverIdle
    /\ emoji_duel_lock = "free"
    /\ sender \in occupants[room_id]
    /\ room_id \in DOMAIN emoji_duel_state
    /\ LET duel == emoji_duel_state[room_id] IN
         /\ duel.status = "pending"
         /\ Lower(sender) = Lower(duel.p2.name)
         /\ emoji_duel_state' =
                [emoji_duel_state EXCEPT
                   ![room_id].status = "active",
                   ![room_id].round = 0,
                   ![room_id].last_activity = now]
         /\ profile_request_context' =
                DictSet(DictSet(profile_request_context,
                                <<Lower(sender), Lower(duel.p1.name)>>,
                                [type |-> "duel_dp", room_id |-> room_id]),
                        <<Lower(sender), Lower(duel.p2.name)>>,
                        [type |-> "duel_dp", room_id |-> room_id])
    /\ emoji_duel_lock' = "recv"
    /\ recv' = BlockedIn("start_duel_round", room_id, "!accept", None, None)
    /\ UNCHANGED <<now, occupants, lockvars, timervars, sl_game_state, roll_threads,
                   board_threads, roll_count, game_count, game_over_sent,
                   sl_replies, duel_announced, duel_sent>>

\* !cancelduel that counts the request of any sender
CancelDuel_AnySender(room_id, sender) ==
    /\ ReceiverIdle
    /\ emoji_duel_lock = "free"
    /\ sender \in occupants[room_id]
    /\ room_id \in DOMAIN emoji_duel_state
    /\ LET duel == emoji_duel_state[room_id]
           requests == duel.cancel_requests \cup {Lower(sender)}
       IN
         /\ emoji_duel_state' =
                [emoji_duel_state EXCEPT ![room_id].cancel_requests = requests]
         /\ IF Cardinality(requests) = 2
            THEN /\ emoji_duel_lock' = "recv"
                 /\ recv' = BlockedIn("end_duel", room_id, "!cancelduel",
                                      None, None)
            ELSE UNCHANGED <<emoji_duel_lock, recv>>
    /\ UNCHANGED <<now, occupants, slvars, lockvars, timervars, duel_announced,
                   duel_sent>>

\* !cancelduel: the second request ends in end_duel(room_id,
\* was_cancelled=True), called with the lock held
CancelDuel(room_id, sender) ==
    /\ ReceiverIdle
    /\ emoji_duel_lock = "free"
    /\ sender \in occupants[room_id]
    /\ room_id \in DOMAIN emoji_duel_state
    /\ LET duel == emoji_duel_state[room_id]
           requests == duel.cancel_requests \cup {Lower(sender)}
       IN
         /\ Lower(sender) \in {Lower(duel.p1.name), Lower(duel.p2.name)}
         /\ emoji_duel_state' =
                [emoji_duel_state EXCEPT ![room_id].cancel_requests = requests]
         /\ IF Cardinality(requests) = 2
            THEN /\ emoji_duel_lock' = "recv"
                 /\ recv' = BlockedIn("end_duel", room_id, "!cancelduel",
                                      None, None)
            ELSE UNCHANGED <<emoji_duel_lock, recv>>
    /\ UNCHANGED <<now, occupants, slvars, lockvars, timervars, duel_announced,
                   duel_sent>>

\* on_message, handler == "userjoin"
UserJoin(room_id, username) ==
    /\ ReceiverIdle
    /\ emoji_duel_lock = "free"
    /\ username \notin occupants[room_id]
    /\ occupants' = [occupants EXCEPT ![room_id] = @ \cup {username}]
    /\ IF room_id \in DOMAIN emoji_duel_state
       THEN LET duel == emoji_duel_state[room_id]
                userid == UserIdOf(username)
            IN emoji_duel_state' =
                 [emoji_duel_state EXCEPT
                    ![room_id].p1.userid =
                        IF Lower(username) = Lower(duel.p1.name)
                        THEN userid ELSE @,
                    ![room_id].p2.userid =
                        IF Lower(username) = Lower(duel.p2.name)
                        THEN userid ELSE @]
       ELSE UNCHANGED emoji_duel_state
    /\ UNCHANGED <<now, slvars, lockvars, timervars, emoji_duel_lock,
                   duel_announced, duel_sent, recv>>

\* the participant of `duel` whose userid is left_userid: the generator of
\* the userleave handler looks at p1 first
Leaver(duel, left_userid) ==
    IF duel.p1.userid = left_userid THEN Lower(duel.p1.name)
    ELSE IF duel.p2.userid = left_userid THEN Lower(duel.p2.name)
    ELSE None

\* on_message, handler == "userleave", of a user other than the bot: when
\* the leaver is a participant the handler announces the default win and
\* ends in end_duel(room_id), called with the lock held
UserLeave(room_id, username) ==
    /\ ReceiverIdle
    /\ emoji_duel_lock = "free"
    /\ username \in occupants[room_id]
    /\ occupants' = [occupants EXCEPT ![room_id] = @ \ {username}]
    /\ IF /\ room_id \in DOMAIN emoji_duel_state
          /\ Leaver(emoji_duel_state[room_id], UserIdOf(username)) # None
       THEN LET duel == emoji_duel_state[room_id]
                leaver_l == Leaver(duel, UserIdOf(username))
                winner == IF leaver_l = Lower(duel.p1.name)
                          THEN duel.p2 ELSE duel.p1
                loser == IF leaver_l = Lower(duel.p1.name)
                         THEN duel.p1 ELSE duel.p2
            IN /\ emoji_duel_lock' = "recv"
               /\ recv' = BlockedIn("end_duel", room_id, "userleave",
                                    winner.name, loser.name)
       ELSE UNCHANGED <<emoji_duel_lock, recv>>
    /\ UNCHANGED <<now, slvars, lockvars, timervars, emoji_duel_state,
                   duel_announced, duel_sent>>

\* "... has been cancelled due to inactivity", sent to room_id
InactivityNotice(room_id) == [kind |-> "inactivity", room_id |-> room_id]

\* duel_sent after the sweep went through stale_duel_keys: one notice for
\* each room (the model has one room)
SweepNotices(stale_duel_keys) ==
    IF stale_duel_keys = {} THEN duel_sent
    ELSE Append(duel_sent, InactivityNotice(CHOOSE r \in stale_duel_keys : TRUE))

\* cleanup_stale_requests, the `with bot_state.emoji_duel_lock` block: the
\* sweep thread waits for the lock
DuelSweep ==
    /\ emoji_duel_lock = "free"
    /\ LET stale_duel_keys ==
               {r \in DOMAIN emoji_duel_state :
                   now - emoji_duel_state[r].last_activity > DUEL_STALE_SECONDS}
       IN /\ stale_duel_keys # {}
          /\ emoji_duel_state' =
                 [r \in DOMAIN emoji_duel_state \ stale_duel_keys |->
                     emoji_duel_state[r]]
          /\ duel_sent' = SweepNotices(stale_duel_keys)
    /\ UNCHANGED <<now, occupants, slvars, lockvars, timervars, emoji_duel_lock,
                   duel_announced, recv>>

\* the clock, in steps that outlast the inactivity window of a duel
IdleTick ==
    /\ now + IdleTickSeconds <= MaxIdleTime
    /\ now' = now + IdleTickSeconds
    /\ UNCHANGED <<occupants, slvars, duelvars, lockvars, timervars>>

InitDuel == InitFresh

NextDuel ==
    \/ \E r \in Rooms, s \in Users, o \in Users : DuelChallenge(r, s, o)
    \/ \E r \in Rooms, s \in Users : Accept(r, s)
    \/ \E r \in Rooms, s \in Users : CancelDuel(r, s)
    \/ \E r \in Rooms, u \in Users : UserJoin(r, u)
    \/ \E r \in Rooms, u \in Users : UserLeave(r, u)
    \/ DuelSweep
    \/ IdleTick

SpecDuel == InitDuel /\ [][NextDuel]_vars

\* the sweep thread and the clock run whenever they can; nothing makes a
\* user send a command
FairSpecDuel == SpecDuel /\ WF_vars(DuelSweep) /\ WF_vars(IdleTick)

\* end_duel: the winner and the loser of a duel that was not cancelled
DuelWinner(p1, p2) == IF p1.score > p2.score THEN p1 ELSE p2
DuelLoser(p1, p2) == IF p1.score > p2.score THEN p2 ELSE p1

\* end_duel: the message sent to the room
EndDuelAnnouncement(duel_data, was_cancelled) ==
    IF was_cancelled
    THEN [kind |-> "cancelled", p1 |-> duel_data.p1, p2 |-> duel_data.p2]
    ELSE [kind |-> "champion", p1 |-> duel_data.p1, p2 |-> duel_data.p2,
          winner |-> DuelWinner(duel_data.p1, duel_data.p2).name,
          loser |-> DuelLoser(duel_data.p1, duel_data.p2).name]

\* end_duel(room_id, was_cancelled), entered by a thread that does not hold
\* emoji_duel_lock
EndDuel(room_id, was_cancelled) ==
    /\ emoji_duel_lock = "free"
    /\ room_id \in DOMAIN emoji_duel_state
    /\ duel_announced' =
           EndDuelAnnouncement(emoji_duel_state[room_id], was_cancelled)
    /\ emoji_duel_state' = DictDel(emoji_duel_state, room_id)
    /\ UNCHANGED <<now, occupants, slvars, lockvars, timervars, emoji_duel_lock,
                   duel_sent, recv>>

\* end_duel as the function under test: its input is a duel in any round,
\* with any scores the rounds played so far allow
InitEndDuel ==
    /\ now = 1
    /\ occupants = [r \in Rooms |-> Users]
    /\ sl_game_state = EmptyDict
    /\ profile_request_context = EmptyDict
    /\ roll_threads = {}
    /\ board_threads = {}
    /\ roll_count = 0
    /\ game_over_sent = <<>>
    /\ sl_replies = {}
    /\ game_count = 0
    /\ \E n1 \in Users, n2 \in Users :
       \E round \in 1..(DUEL_MAX_ROUNDS + 1) :
       \E s1 \in 0..DUEL_WIN_SCORE, s2 \in 0..DUEL_WIN_SCORE :
          /\ Lower(n1) # Lower(n2)
          /\ s1 + s2 <= round - 1
          /\ ~(s1 = DUEL_WIN_SCORE /\ s2 = DUEL_WIN_SCORE)
          /\ emoji_duel_state =
               [r \in Rooms |->
                  [status |-> "active",
                   p1 |-> [name |-> n1, score |-> s1, userid |-> UserIdOf(n1)],
                   p2 |-> [name |-> n2, score |-> s2, userid |-> UserIdOf(n2)],
                   round |-> round, cancel_requests |-> {},
                   last_activity |-> 1]]
    /\ emoji_duel_lock = "free"
    /\ duel_announced = [kind |-> "nothing"]
    /\ duel_sent = <<>>
    /\ recv = Idle
    /\ sl_game_lock = "free"
    /\ presence_lock = "free"
    /\ thread_at = [t \in Threads |-> NotRunning]
    /\ wyr_game_state = EmptyDict
    /\ wyr_threads = [r \in Rooms |-> 0]
    /\ wyr_timers = [r \in Rooms |-> <<>>]
    /\ timer_calls = [k \in TimerKinds |-> 0]
    /\ timer_error = None

NextEndDuel == \E r \in Rooms, was_cancelled \in BOOLEAN :
                   EndDuel(r, was_cancelled)

SpecEndDuel == InitEndDuel /\ [][NextEndDuel]_vars

\* The rounds of a duel.  start_duel_round is the function under test: its
\* body is run for the call at which the receive thread stands, as it would
\* run from line 1881 on; in the running bot every such call is made with
\* emoji_duel_lock held and does not get past line 1880.
Emojis == {"fire"}

\* duel.get(key) of a key the record does not have yet
Absent == "Absent"

\* the entries of duel_sent of one kind for one round of a room
SentOf(kind, room_id, round) ==
    {i \in 1..Len(duel_sent) :
        /\ duel_sent[i].kind = kind
        /\ duel_sent[i].room_id = room_id
        /\ duel_sent[i].round = round}

\* !catch: the score, the reply, time.sleep(3), and the call of
\* start_duel_round(room_id) with the lock held
Catch(room_id, sender) ==
    /\ ReceiverIdle
    /\ emoji_duel_lock = "free"
    /\ sender \in occupants[room_id]
    /\ room_id \in DOMAIN emoji_duel_state
    /\ LET duel == emoji_duel_state[room_id] IN
         /\ duel.status = "active"
         /\ duel.round_winner \in {None, Absent}
         /\ Lower(sender) \in {Lower(duel.p1.name), Lower(duel.p2.name)}
         /\ emoji_duel_state' =
                [emoji_duel_state EXCEPT
                   ![room_id].round_winner = sender,
                   ![room_id].p1.score =
                       IF Lower(sender) = Lower(duel.p1.name)
                       THEN @ + 1 ELSE @,
                   ![room_id].p2.score =
                       IF Lower(sender) = Lower(duel.p1.name)
                       THEN @ ELSE @ + 1,
                   ![room_id].next_round_faker =
                       IF Lower(sender) = Lower(duel.p1.name)
                       THEN duel.p1.name ELSE duel.p2.name]
         /\ duel_sent' =
                Append(duel_sent, [kind |-> "caught", room_id |-> room_id,
                                   round |-> duel.round, winner |-> sender])
    /\ emoji_duel_lock' = "recv"
    /\ recv' = BlockedIn("start_duel_round", room_id, "!catch", sender, None)
    /\ UNCHANGED <<now, occupants, slvars, lockvars, timervars, duel_announced>>

\* start_duel_round(room_id), lines 1881-1917; the caller returns after it
StartDuelRound(room_id) ==
    /\ recv.op = "start_duel_round"
    /\ recv.room_id = room_id
    /\ room_id \in DOMAIN emoji_duel_state
    /\ LET duel == emoji_duel_state[room_id]
           round == duel.round + 1
           fake_emoji == IF duel.fake_emoji = Absent THEN None
                         ELSE duel.fake_emoji
           fake_target ==
               IF duel.next_round_faker \notin {None, Absent}
                    /\ fake_emoji # None
               THEN fake_emoji ELSE None
       IN IF \/ round > DUEL_MAX_ROUNDS
             \/ duel.p1.score >= DUEL_WIN_SCORE
             \/ duel.p2.score >= DUEL_WIN_SCORE
          THEN /\ emoji_duel_state' =
                      [emoji_duel_state EXCEPT
                         ![room_id].round = round,
                         ![room_id].round_winner = None,
                         ![room_id].last_activity = now]
               /\ recv' = BlockedIn("end_duel", room_id, "start_duel_round",
                                    None, None)
               /\ UNCHANGED <<emoji_duel_lock, duel_sent>>
          ELSE /\ emoji_duel_state' =
                      [emoji_duel_state EXCEPT
                         ![room_id].round = round,
                         ![room_id].round_winner = None,
                         ![room_id].last_activity = now,
                         ![room_id].next_round_faker = None]
               /\ duel_sent' =
                      Append(duel_sent,
                             [kind |-> "round", room_id |-> room_id,
                              round |-> round, fake_target |-> fake_target,
                              decoy |-> fake_emoji])
               /\ recv' = Idle
               /\ emoji_duel_lock' = "free"
    /\ UNCHANGED <<now, occupants, slvars, lockvars, timervars, duel_announced>>

\* send_stream, the thread start_duel_round starts for a round: it sends
\* the stream that was built for the round
SendStream(room_id, round) ==
    /\ emoji_duel_lock = "free"
    /\ SentOf("round", room_id, round) # {}
    /\ SentOf("stream", room_id, round) = {}
    /\ room_id \in DOMAIN emoji_duel_state
    /\ emoji_duel_state[room_id].status = "active"
    /\ emoji_duel_state[room_id].round - round <= MaxStreamLag
    /\ duel_sent' =
           Append(duel_sent,
                  [kind |-> "stream", room_id |-> room_id, round |-> round,
                   decoy |-> duel_sent[CHOOSE i \in SentOf("round", room_id,
                                                           round) : TRUE].decoy])
    /\ UNCHANGED <<now, occupants, slvars, lockvars, timervars,
                   emoji_duel_state, emoji_duel_lock, duel_announced, recv>>

\* how !fake ends for an active duel: duel.get('next_round_faker', '') is
\* '' while the record has no such key and None once start_duel_round has
\* written None, and None has no lower()
FakeOutcome(duel, sender) ==
    IF duel.next_round_faker = None THEN "AttributeError"
    ELSE IF duel.next_round_faker = Absent THEN "refused"
    ELSE IF Lower(duel.next_round_faker) = Lower(sender) THEN "planted"
    ELSE "refused"

\* !fake <emoji>
Fake(room_id, sender, fake_emoji) ==
    /\ ReceiverIdle
    /\ emoji_duel_lock = "free"
    /\ sender \in occupants[room_id]
    /\ room_id \in DOMAIN emoji_duel_state
    /\ emoji_duel_state[room_id].status = "active"
    /\ Cardinality({i \in 1..Len(duel_sent) : duel_sent[i].kind = "fake"})
          < MaxFakes
    /\ LET duel == emoji_duel_state[room_id] IN
         /\ emoji_duel_state' =
                IF FakeOutcome(duel, sender) = "planted"
                THEN [emoji_duel_state EXCEPT
                        ![room_id].fake_emoji = fake_emoji]
                ELSE emoji_duel_state
         /\ duel_sent' =
                Append(duel_sent,
                       [kind |-> "fake", room_id |-> room_id,
                        round |-> duel.round, sender |-> sender,
                        outcome |-> FakeOutcome(duel, sender)])
    /\ UNCHANGED <<now, occupants, slvars, lockvars, timervars,
                   emoji_duel_lock, duel_announced, recv>>

\* a duel that bob has just accepted: the !accept handler stands at its
\* call of start_duel_round
InitRound ==
    /\ now = 1
    /\ occupants = [r \in Rooms |-> Users]
    /\ sl_game_state = EmptyDict
    /\ profile_request_context = EmptyDict
    /\ roll_threads = {}
    /\ board_threads = {}
    /\ roll_count = 0
    /\ game_over_sent = <<>>
    /\ sl_replies = {}
    /\ game_count = 0
    /\ emoji_duel_state =
         [r \in Rooms |->
            [status |-> "active",
             p1 |-> [name |-> "Yasin", score |-> 0, userid |-> None],
             p2 |-> [name |-> "bob", score |-> 0, userid |-> None],
             round |-> 0, cancel_requests |-> {}, last_activity |-> 1,
             round_winner |-> Absent, next_round_faker |-> Absent,
             fake_emoji |-> Absent]]
    /\ emoji_duel_lock = "recv"
    /\ duel_announced = [kind |-> "nothing"]
    /\ duel_sent = <<>>
    /\ recv = BlockedIn("start_duel_round", "r1", "!accept", None, None)
    /\ sl_game_lock = "free"
    /\ presence_lock = "free"
    /\ thread_at = [t \in Threads |-> NotRunning]
    /\ wyr_game_state = EmptyDict
    /\ wyr_threads = [r \in Rooms |-> 0]
    /\ wyr_timers = [r \in Rooms |-> <<>>]
    /\ timer_calls = [k \in TimerKinds |-> 0]
    /\ timer_error = None

NextRound ==
    \/ \E r \in Rooms, s \in Users : Catch(r, s)
    \/ \E r \in Rooms : StartDuelRound(r)
    \/ \E r \in Rooms, n \in 1..DUEL_MAX_ROUNDS : SendStream(r, n)
    \/ \E r \in Rooms, s \in Users, e \in Emojis : Fake(r, s, e)

SpecRound == InitRound /\ [][NextRound]_vars

\* ------------------------------------------------------ lock discipline
\* The three locks of BotState.__init__ and the code paths that take them,
\* one step at a time: here a handler is not one action but a sequence of
\* steps, so that a state shows which locks a thread holds while it sleeps,
\* renders, uploads, reads a file or writes a game record.  The conditions
\* inside a handler are not modelled; each of its branches that differs in
\* locks or blocking calls is a path of its own.
Locks == {"sl_game_lock", "emoji_duel_lock", "presence_lock"}
GameLocks == {"sl_game_lock", "emoji_duel_lock"}
LockRooms == {"r1", "r2"}

Acq(lock) == [op |-> "acquire", arg |-> lock]     \* `with lock:` entered
Rel(lock) == [op |-> "release", arg |-> lock]     \* `with lock:` left
Blk(what) == [op |-> "block", arg |-> what]       \* sleep, render, upload, file
Wr(lock) == [op |-> "write", arg |-> lock]        \* a write to a game record
Go(worker) == [op |-> "spawn", arg |-> worker]    \* threading.Thread(...).start()

\* handle_sl_commands, a command that changes the game (!j, !quit, !kick...)
SlCommandPath ==
    <<Acq("sl_game_lock"), Wr("sl_game_lock"), Rel("sl_game_lock")>>

\* handle_sl_commands, !start
SlStartPath ==
    <<Acq("sl_game_lock"), Wr("sl_game_lock"), Go("board"),
      Rel("sl_game_lock")>>

\* handle_sl_commands, !roll
SlRollPath ==
    <<Acq("sl_game_lock"), Wr("sl_game_lock"), Go("roll"),
      Rel("sl_game_lock")>>

\* generate_and_send_initial_board: board image, upload, time.sleep(1),
\* game["turn_start_time"] = time.time()
InitialBoardPath ==
    <<Blk("render"), Blk("upload"), Blk("sleep"), Wr("sl_game_lock")>>

\* perform_roll when the game goes on: dice gif and time.sleep(2.5), then
\* the locked section, which ends with time.sleep(1), the board image and
\* its upload
PerformRollPath ==
    <<Blk("upload"), Blk("sleep"), Acq("sl_game_lock"), Wr("sl_game_lock"),
      Blk("sleep"), Blk("render"), Blk("upload"), Rel("sl_game_lock")>>

\* perform_roll when the roll ends the game
PerformRollOverPath ==
    <<Blk("upload"), Blk("sleep"), Acq("sl_game_lock"), Wr("sl_game_lock"),
      Rel("sl_game_lock")>>

\* sl_turn_monitor, one room of one pass
MonitorPath ==
    <<Blk("sleep"), Acq("sl_game_lock"), Wr("sl_game_lock"),
      Rel("sl_game_lock")>>

\* cleanup_stale_requests, one pass
CleanupPath ==
    <<Blk("sleep"), Acq("sl_game_lock"), Wr("sl_game_lock"),
      Rel("sl_game_lock"), Acq("emoji_duel_lock"), Wr("emoji_duel_lock"),
      Rel("emoji_duel_lock")>>

\* handle_emoji_duel_commands, !duel: load_bot_config() reads
\* bot_config.json
DuelChallengePath ==
    <<Acq("emoji_duel_lock"), Blk("file"), Wr("emoji_duel_lock"),
      Rel("emoji_duel_lock")>>

\* handle_emoji_duel_commands, !accept by the challenged user:
\* time.sleep(2), then start_duel_round and its own `with emoji_duel_lock`
AcceptPath ==
    <<Acq("emoji_duel_lock"), Blk("file"), Wr("emoji_duel_lock"),
      Blk("sleep"), Acq("emoji_duel_lock"), Wr("emoji_duel_lock"),
      Rel("emoji_duel_lock"), Rel("emoji_duel_lock")>>

\* userjoin that takes emoji_duel_lock before it has left presence_lock
UserJoinPath_Nested ==
    <<Acq("presence_lock"), Acq("emoji_duel_lock"), Rel("presence_lock"),
      Wr("emoji_duel_lock"), Rel("emoji_duel_lock"), Blk("file")>>

\* on_message, userjoin: presence entry, duel userid, load_greetings()
UserJoinPath ==
    <<Acq("presence_lock"), Rel("presence_lock"), Acq("emoji_duel_lock"),
      Wr("emoji_duel_lock"), Rel("emoji_duel_lock"), Blk("file")>>

\* on_message, userleave of a user who is in no duel, while a trace is on
UserLeavePath ==
    <<Acq("presence_lock"), Rel("presence_lock"), Acq("emoji_duel_lock"),
      Rel("emoji_duel_lock"), Acq("presence_lock"), Rel("presence_lock")>>

\* the code path of each name
PathOf(name) ==
    CASE name = "sl_command" -> SlCommandPath
      [] name = "sl_start" -> SlStartPath
      [] name = "sl_roll" -> SlRollPath
      [] name = "initial_board" -> InitialBoardPath
      [] name = "perform_roll" -> PerformRollPath
      [] name = "perform_roll_over" -> PerformRollOverPath
      [] name = "monitor" -> MonitorPath
      [] name = "cleanup" -> CleanupPath
      [] name = "duel_challenge" -> DuelChallengePath
      [] name = "accept" -> AcceptPath
      [] name = "userjoin" -> UserJoinPath
      [] name = "userleave" -> UserLeavePath

\* the paths a thread runs: on_message handles one message at a time, the
\* two loops repeat their pass, a worker runs its target once
PathsOf(t) ==
    CASE t = "recv" -> {"sl_command", "sl_start", "sl_roll", "duel_challenge",
                        "accept", "userjoin", "userleave"}
      [] t = "cleanup" -> {"cleanup"}
      [] t = "monitor" -> {"monitor"}
      [] t = "roll" -> {"perform_roll", "perform_roll_over"}
      [] t = "board" -> {"initial_board"}

Running(t) == thread_at[t] # NotRunning
CurrentStep(t) == PathOf(thread_at[t].path)[thread_at[t].step]

LockHolder(lock) ==
    CASE lock = "sl_game_lock" -> sl_game_lock
      [] lock = "emoji_duel_lock" -> emoji_duel_lock
      [] lock = "presence_lock" -> presence_lock

SetLock(lock, holder) ==
    /\ sl_game_lock' = IF lock = "sl_game_lock" THEN holder ELSE sl_game_lock
    /\ emoji_duel_lock' =
           IF lock = "emoji_duel_lock" THEN holder ELSE emoji_duel_lock
    /\ presence_lock' =
           IF lock = "presence_lock" THEN holder ELSE presence_lock

\* thread_at when t has left the step it is in
Advanced(t) ==
    IF thread_at[t].step = Len(PathOf(thread_at[t].path))
    THEN [thread_at EXCEPT ![t] = NotRunning]
    ELSE [thread_at EXCEPT ![t].step = thread_at[t].step + 1]

\* the workers a path starts
SpawnedBy(name) ==
    {PathOf(name)[i].arg :
        i \in {j \in 1..Len(PathOf(name)) : PathOf(name)[j].op = "spawn"}}

\* a long-lived thread starts a handler or a pass for room_id
Begin(t, name, room_id) ==
    /\ t \notin Workers
    /\ ~Running(t)
    /\ name \in PathsOf(t)
    /\ \A w \in SpawnedBy(name) : ~Running(w)
    /\ thread_at' =
           [thread_at EXCEPT ![t] = [path |-> name, room |-> room_id,
                                     step |-> 1]]
    /\ UNCHANGED <<now, occupants, slvars, emoji_duel_state, emoji_duel_lock,
                   duel_announced, duel_sent, recv, sl_game_lock, presence_lock,
                   timervars>>

\* threading.Lock.acquire: the thread waits until the lock is free, also
\* when it is the thread itself that holds it
Acquire(t) ==
    /\ Running(t)
    /\ CurrentStep(t).op = "acquire"
    /\ LockHolder(CurrentStep(t).arg) = "free"
    /\ SetLock(CurrentStep(t).arg, t)
    /\ thread_at' = Advanced(t)
    /\ UNCHANGED <<now, occupants, slvars, emoji_duel_state, duel_announced, duel_sent,
                   recv, timervars>>

\* the end of a `with lock:` block
Release(t) ==
    /\ Running(t)
    /\ CurrentStep(t).op = "release"
    /\ SetLock(CurrentStep(t).arg, "free")
    /\ thread_at' = Advanced(t)
    /\ UNCHANGED <<now, occupants, slvars, emoji_duel_state, duel_announced, duel_sent,
                   recv, timervars>>

\* the thread comes back from a sleep, a render, an upload or a file read
BlockDone(t) ==
    /\ Running(t)
    /\ CurrentStep(t).op = "block"
    /\ thread_at' = Advanced(t)
    /\ UNCHANGED <<now, occupants, slvars, emoji_duel_state, emoji_duel_lock,
                   duel_announced, duel_sent, recv, sl_game_lock, presence_lock,
                   timervars>>

\* the thread has written the game record
WriteDone(t) ==
    /\ Running(t)
    /\ CurrentStep(t).op = "write"
    /\ thread_at' = Advanced(t)
    /\ UNCHANGED <<now, occupants, slvars, emoji_duel_state, emoji_duel_lock,
                   duel_announced, duel_sent, recv, sl_game_lock, presence_lock,
                   timervars>>

\* threading.Thread(target=...).start(): the worker starts on the room of
\* the handler
Spawn(t, worker, name) ==
    /\ Running(t)
    /\ CurrentStep(t) = Go(worker)
    /\ name \in PathsOf(worker)
    /\ thread_at' =
           [Advanced(t) EXCEPT
              ![worker] =
                  [path |-> name, room |-> thread_at[t].room, step |-> 1]]
    /\ UNCHANGED <<now, occupants, slvars, emoji_duel_state, emoji_duel_lock,
                   duel_announced, duel_sent, recv, sl_game_lock, presence_lock,
                   timervars>>

InitLocks == InitFresh

NextLocks ==
    \/ \E t \in Threads : \E name \in PathsOf(t) : \E r \in LockRooms :
         Begin(t, name, r)
    \/ \E t \in Threads : Acquire(t)
    \/ \E t \in Threads : Release(t)
    \/ \E t \in Threads : BlockDone(t)
    \/ \E t \in Threads : WriteDone(t)
    \/ \E t \in Threads : \E w \in Workers : \E name \in PathsOf(w) :
         Spawn(t, w, name)

SpecLocks == InitLocks /\ [][NextLocks]_vars

\* ------------------------------------------------- timers and sweeps
\* Would You Rather.  Nothing of it takes a lock.
NewWyr(t) ==
    [active |-> TRUE, votes |-> EmptyDict, end_time |-> t + WYR_VOTE_DURATION]

\* bot_state.wyr_game_state.get(room_id, {}).get("active")
WyrActive(room_id) ==
    /\ room_id \in DOMAIN wyr_game_state
    /\ wyr_game_state[room_id].active

\* !wyr: start_wyr_game finds no active game and starts generate_and_start
WyrStart(room_id, sender) ==
    /\ sender \in occupants[room_id]
    /\ ~WyrActive(room_id)
    /\ wyr_threads[room_id] + Len(wyr_timers[room_id]) < MaxWyrThreads
    /\ wyr_threads' = [wyr_threads EXCEPT ![room_id] = @ + 1]
    /\ UNCHANGED <<now, occupants, slvars, duelvars, lockvars, wyr_game_state,
                   wyr_timers, timer_calls, timer_error>>

\* generate_and_start: the question has arrived; the thread stores the game
\* and starts the end timer
WyrGenerated(room_id) ==
    /\ wyr_threads[room_id] > 0
    /\ wyr_threads' = [wyr_threads EXCEPT ![room_id] = @ - 1]
    /\ wyr_game_state' = DictSet(wyr_game_state, room_id, NewWyr(now))
    /\ wyr_timers' =
           [wyr_timers EXCEPT ![room_id] = Append(@, now + WYR_VOTE_DURATION)]
    /\ UNCHANGED <<now, occupants, slvars, duelvars, lockvars, timer_calls,
                   timer_error>>

\* !vote A / !vote B
Vote(room_id, sender, choice) ==
    /\ sender \in occupants[room_id]
    /\ WyrActive(room_id)
    /\ sender \notin DOMAIN wyr_game_state[room_id].votes
    /\ wyr_game_state' =
           [wyr_game_state EXCEPT
              ![room_id].votes = DictSet(@, sender, choice)]
    /\ UNCHANGED <<now, occupants, slvars, duelvars, lockvars, wyr_threads,
                   wyr_timers, timer_calls, timer_error>>

\* end_wyr_game that reads the game without asking whether it is there
EndWyrOutcome_Unguarded(room_id) ==
    IF room_id \notin DOMAIN wyr_game_state THEN "KeyError" ELSE "ended"

\* how end_wyr_game ends: it returns at its first line, or it announces the
\* votes and deletes the game
EndWyrOutcome(room_id) ==
    IF ~WyrActive(room_id) THEN "return" ELSE "ended"

\* the end timer of room_id fires and end_wyr_game runs alone
EndWyrGame(room_id) ==
    /\ wyr_timers[room_id] # <<>>
    /\ now >= Head(wyr_timers[room_id])
    /\ EndWyrOutcome(room_id) = "return"
          => timer_calls["wyr_end"] < MaxTimerCalls
    /\ wyr_timers' = [wyr_timers EXCEPT ![room_id] = Tail(@)]
    /\ wyr_game_state' =
           IF EndWyrOutcome(room_id) = "ended"
           THEN DictDel(wyr_game_state, room_id) ELSE wyr_game_state
    /\ timer_calls' =
           IF room_id \notin DOMAIN wyr_game_state
           THEN [timer_calls EXCEPT !["wyr_end"] = @ + 1] ELSE timer_calls
    /\ timer_error' =
           IF EndWyrOutcome(room_id) = "KeyError" THEN "KeyError" ELSE None
    /\ UNCHANGED <<now, occupants, slvars, duelvars, lockvars, wyr_threads>>

\* two end timers of room_id that are due at the same time fire together:
\* both pass the first line, one deletes the game, and the other raises
\* KeyError at bot_state.wyr_game_state[room_id] or at the del
EndWyrRace(room_id) ==
    /\ Len(wyr_timers[room_id]) >= 2
    /\ now >= wyr_timers[room_id][2]
    /\ wyr_timers[room_id][1] = wyr_timers[room_id][2]
    /\ WyrActive(room_id)
    /\ wyr_timers' = [wyr_timers EXCEPT ![room_id] = Tail(Tail(@))]
    /\ wyr_game_state' = DictDel(wyr_game_state, room_id)
    /\ timer_error' = "KeyError"
    /\ UNCHANGED <<now, occupants, slvars, duelvars, lockvars, wyr_threads,
                   timer_calls>>

\* cleanup_stale_requests, the wyr_game_state sweep
WyrSweep ==
    LET stale_keys ==
            {r \in DOMAIN wyr_game_state :
                /\ wyr_game_state[r].active
                /\ now > wyr_game_state[r].end_time + WYR_STALE_SECONDS}
    IN /\ stale_keys # {}
       /\ wyr_game_state' =
              [r \in DOMAIN wyr_game_state \ stale_keys |-> wyr_game_state[r]]
       /\ UNCHANGED <<now, occupants, slvars, duelvars, lockvars, wyr_threads,
                      wyr_timers, timer_calls, timer_error>>

\* sl_turn_monitor reaches, in the room ids it listed before it took the
\* lock, a room whose game is gone: `continue`
MonitorOnDeleted(room_id) ==
    /\ room_id \notin DOMAIN sl_game_state
    /\ timer_calls["sl_monitor"] < MaxTimerCalls
    /\ timer_calls' = [timer_calls EXCEPT !["sl_monitor"] = @ + 1]
    /\ timer_error' = None
    /\ UNCHANGED <<now, occupants, slvars, duelvars, lockvars, wyr_game_state,
                   wyr_threads, wyr_timers>>

\* a pass of cleanup_stale_requests when room_id has neither an S&L game
\* nor a duel: both sweeps list the records that exist, under their locks
CleanupOnDeleted(room_id) ==
    /\ emoji_duel_lock = "free"
    /\ room_id \notin DOMAIN sl_game_state
    /\ room_id \notin DOMAIN emoji_duel_state
    /\ room_id \notin DOMAIN wyr_game_state
    /\ timer_calls["cleanup"] < MaxTimerCalls
    /\ timer_calls' = [timer_calls EXCEPT !["cleanup"] = @ + 1]
    /\ timer_error' = None
    /\ UNCHANGED <<now, occupants, slvars, duelvars, lockvars, wyr_game_state,
                   wyr_threads, wyr_timers>>

\* a game in progress and no other session
InitTimers == InitEndgame

\* the user whose !wyr, !vote and !duel commands are followed
Voters == {"bob"}

\* the sessions come and go by the commands and the sweep, and the timers
\* fire when they will
NextTimers ==
    \/ \E r \in Rooms, s \in Voters : WyrStart(r, s)
    \/ \E r \in Rooms : WyrGenerated(r)
    \/ \E r \in Rooms, s \in Voters, c \in {"A", "B"} : Vote(r, s, c)
    \/ \E r \in Rooms : EndWyrGame(r)
    \/ \E r \in Rooms : EndWyrRace(r)
    \/ WyrSweep
    \/ \E r \in Rooms : MonitorOnDeleted(r)
    \/ \E r \in Rooms : CleanupOnDeleted(r)
    \/ \E r \in Rooms, s \in Users : Quit(r, s)
    \/ \E r \in Rooms, s \in Voters, o \in Users : DuelChallenge(r, s, o)
    \/ DuelSweep
    \/ IdleTick

SpecTimers == InitTimers /\ [][NextTimers]_vars

\* ---------------------------------------------------- profile lookups
ProfileRequestTypes == {"full_info", "dp_only"}

\* !info and !dp: the descriptor is stored under (requester, target), both
\* lower-cased, and the profile of the target is asked for
ProfileRequest(room_id, sender, target_username, type) ==
    /\ ReceiverIdle
    /\ sender \in occupants[room_id]
    /\ Cardinality(DOMAIN profile_request_context) < MaxDescriptors
    /\ profile_request_context' =
           DictSet(profile_request_context,
                   <<Lower(sender), Lower(target_username)>>,
                   [type |-> type, room_id |-> room_id,
                    requester |-> sender])
    /\ UNCHANGED <<now, occupants, duelvars, lockvars, timervars,
                   sl_game_state, roll_threads, board_threads, roll_count,
                   game_count, game_over_sent, sl_replies>>

\* the keys a reply could take if it compared the requester with the
\* Username
MatchingKeys_ByRequester(username) ==
    {key \in DOMAIN profile_request_context : key[1] = Lower(username)}

\* the keys whose target is the lower-cased Username of the reply.  The loop
\* of on_message stops at the first of them in the order of the dict; a
\* reply of the model takes any of them
MatchingKeys(username) ==
    {key \in DOMAIN profile_request_context : key[2] = Lower(username)}

\* what the reply answers to a descriptor that is neither duel_dp nor
\* sl_join
ProfileReplyText(type, uid) ==
    IF uid = None THEN "Couldn't find user" ELSE type

\* on_message, handler == "profile".  uid is the UserID of the reply (None
\* when the service knows no such user); pending says that the Username has
\* a pending_viz_requests or pending_ship_requests entry, whose branch then
\* answers the reply and returns
ProfileReply(username, uid, pending) ==
    /\ ReceiverIdle
    /\ IF MatchingKeys(username) = {}
       THEN UNCHANGED <<profile_request_context, sl_game_state, sl_replies,
                        emoji_duel_state>>
       ELSE \E key \in MatchingKeys(username) :
              LET context == profile_request_context[key]
                  profile_user_lower == Lower(username)
              IN CASE context.type = "duel_dp" ->
                        /\ emoji_duel_lock = "free"
                        /\ IF context.room_id \in DOMAIN emoji_duel_state
                           THEN LET duel == emoji_duel_state[context.room_id]
                                IN emoji_duel_state' =
                                     [emoji_duel_state EXCEPT
                                        ![context.room_id].p1.userid =
                                            IF profile_user_lower =
                                                   Lower(duel.p1.name)
                                            THEN uid ELSE @,
                                        ![context.room_id].p2.userid =
                                            IF /\ profile_user_lower #
                                                      Lower(duel.p1.name)
                                               /\ profile_user_lower =
                                                      Lower(duel.p2.name)
                                            THEN uid ELSE @]
                           ELSE UNCHANGED emoji_duel_state
                        /\ profile_request_context' =
                               DictDel(profile_request_context, key)
                        /\ UNCHANGED <<sl_game_state, sl_replies>>
                   [] context.type = "sl_join" ->
                        LET requester_lower == Lower(context.requester)
                            room_id_sl == context.room_id
                            joins ==
                                /\ room_id_sl \in DOMAIN sl_game_state
                                /\ sl_game_state[room_id_sl].status = "lobby"
                        IN /\ sl_game_state' =
                                 IF joins
                                 THEN [sl_game_state EXCEPT
                                         ![room_id_sl].players =
                                             DictSet(@, requester_lower,
                                                     NewPlayer(uid))]
                                 ELSE sl_game_state
                           /\ sl_replies' =
                                 IF joins
                                 THEN Replied(room_id_sl, "has joined")
                                 ELSE sl_replies
                           /\ profile_request_context' =
                                  DictDel(profile_request_context, key)
                           /\ UNCHANGED emoji_duel_state
                   [] OTHER ->
                        IF pending
                        THEN UNCHANGED <<profile_request_context,
                                         sl_game_state, sl_replies,
                                         emoji_duel_state>>
                        ELSE /\ sl_replies' =
                                    Replied(context.room_id,
                                            ProfileReplyText(context.type,
                                                             uid))
                             /\ profile_request_context' =
                                    DictDel(profile_request_context, key)
                             /\ UNCHANGED <<sl_game_state, emoji_duel_state>>
    /\ UNCHANGED <<now, occupants, lockvars, timervars, roll_threads,
                   board_threads, roll_count, game_count, game_over_sent,
                   emoji_duel_lock, duel_announced, duel_sent, recv>>

\* the commands that store a descriptor, and the profile replies
NextProfile ==
    \/ \E r \in Rooms, s \in Users : SlOpen(r, s)
    \/ \E r \in Rooms, s \in Users : Join(r, s)
    \/ \E r \in Rooms : DuelChallenge(r, "Yasin", "bob")
    \/ \E r \in Rooms, s \in Users : Accept(r, s)
    \/ \E r \in Rooms, target \in Users :
         \E type \in ProfileRequestTypes :
            ProfileRequest(r, "bob", target, type)
    \/ \E u \in Users : \E uid \in {UserIdOf(u), None} :
         \E pending \in BOOLEAN : ProfileReply(u, uid, pending)

SpecProfile == InitFresh /\ [][NextProfile]_vars

\* ------------------------------------------------------------ two rooms
\* the state with a game in progress in r2 and nothing in r1: Yasin and bob
\* are in both rooms and play the game of r2 near the end of the board; the
\* turn of r2 has just begun or has run out
InitTwoRooms ==
    /\ now \in {1, 1 + SL_TURN_DURATION_SECONDS + 1}
    /\ occupants = [r \in LockRooms |-> {"Yasin", "bob"}]
    /\ \E order \in Perms({"yasin", "bob"}) :
          sl_game_state =
            [r \in {"r2"} |->
               [status |-> "active", host |-> "Yasin",
                players |-> [k \in {"yasin", "bob"} |->
                               [userid |-> UserIdOf(k), position |-> 97,
                                status |-> "playing", rank |-> 0]],
                turn_order |-> order, current_turn_index |-> 0,
                next_rank |-> 1, turn_start_time |-> 1,
                turn_first_warning_sent |-> FALSE,
                turn_second_warning_sent |-> FALSE, obj |-> 0]]
    /\ profile_request_context = EmptyDict
    /\ roll_threads = {}
    /\ board_threads = {}
    /\ roll_count = 0
    /\ game_over_sent = <<>>
    /\ sl_replies = {}
    /\ game_count = 0
    /\ emoji_duel_state = EmptyDict
    /\ emoji_duel_lock = "free"
    /\ duel_announced = [kind |-> "nothing"]
    /\ duel_sent = <<>>
    /\ recv = Idle
    /\ sl_game_lock = "free"
    /\ presence_lock = "free"
    /\ thread_at = [t \in Threads |-> NotRunning]
    /\ wyr_game_state = EmptyDict
    /\ wyr_threads = [r \in Rooms |-> 0]
    /\ wyr_timers = [r \in Rooms |-> <<>>]
    /\ timer_calls = [k \in TimerKinds |-> 0]
    /\ timer_error = None

\* the commands that build a game, in r1, and the commands, the roll threads
\* and the monitor that work on a game in progress, in r2; duels are
\* challenged in both rooms
NextRooms ==
    \/ \E s \in Users : SlOpen("r1", s)
    \/ \E s \in Users : Join("r1", s)
    \/ \E u \in Users : ProfileReplySlJoin(u, UserIdOf(u))
    \/ \E s \in Users : \E order \in Perms({"yasin", "bob"}) :
         Start("r1", s, order)
    \/ \E obj \in board_threads : InitialBoardSent(obj)
    \/ \E s \in Users : Roll("r2", s)
    \/ \E th \in roll_threads, rolled \in Dice : PerformRoll(th, rolled)
    \/ \E s \in Users : Quit("r2", s)
    \/ \E s \in Users, t \in Users : Kick("r2", s, t)
    \/ \E r \in LockRooms : Monitor(r)
    \/ \E r \in LockRooms : DuelChallenge(r, "Yasin", "bob")

SpecRooms == InitTwoRooms /\ [][NextRooms]_vars

\* ------------------------------------------------------- the roll alone
\* random.randint(1, 6)
DieFaces == 1..6

\* the squares a player can stand on before a roll: a square that is a key
\* of SNAKES_AND_LADDERS is never stored, and square 100 ends the play
StandingSquares == (SL_FIRST_SQUARE..(SL_LAST_SQUARE - 1)) \
                       DOMAIN SNAKES_AND_LADDERS

\* a game of three at the start of Yasin's turn, with Yasin on any square of
\* the board and the others on the first one
InitRollFn ==
    /\ now = 1
    /\ occupants = [r \in Rooms |-> Users]
    /\ \E p \in StandingSquares :
          sl_game_state =
            [r \in Rooms |->
               [status |-> "active", host |-> "Yasin",
                players |-> [k \in {"yasin", "bob", "cat"} |->
                               [userid |-> UserIdOf(k),
                                position |-> IF k = "yasin" THEN p
                                             ELSE SL_FIRST_SQUARE,
                                status |-> "playing", rank |-> 0]],
                turn_order |-> <<"yasin", "bob", "cat">>,
                current_turn_index |-> 0,
                next_rank |-> 1, turn_start_time |-> 1,
                turn_first_warning_sent |-> FALSE,
                turn_second_warning_sent |-> FALSE, obj |-> MaxGames]]
    /\ profile_request_context = EmptyDict
    /\ roll_threads = {}
    /\ board_threads = {}
    /\ roll_count = 0
    /\ game_over_sent = <<>>
    /\ sl_replies = {}
    /\ game_count = MaxGames
    /\ emoji_duel_state = EmptyDict
    /\ emoji_duel_lock = "free"
    /\ duel_announced = [kind |-> "nothing"]
    /\ duel_sent = <<>>
    /\ recv = Idle
    /\ sl_game_lock = "free"
    /\ presence_lock = "free"
    /\ thread_at = [t \in Threads |-> NotRunning]
    /\ wyr_game_state = EmptyDict
    /\ wyr_threads = [r \in Rooms |-> 0]
    /\ wyr_timers = [r \in Rooms |-> <<>>]
    /\ timer_calls = [k \in TimerKinds |-> 0]
    /\ timer_error = None

\* !roll and the perform_roll thread, with every face of the die
NextRollFn ==
    \/ \E r \in Rooms, s \in Users : Roll(r, s)
    \/ \E th \in roll_threads, rolled \in DieFaces : PerformRoll(th, rolled)

SpecRollFn == InitRollFn /\ [][NextRollFn]_vars

\* ------------------------------------------------ turns under fairness
\* the turn of an active game is running: the monitor has not yet seen it
\* last longer than SL_TURN_DURATION_SECONDS
TurnRunning(room_id) ==
    /\ room_id \in DOMAIN sl_game_state
    /\ sl_game_state[room_id].status = "active"
    /\ sl_game_state[room_id].turn_start_time # 0
    /\ now - sl_game_state[room_id].turn_start_time
          <= SL_TURN_DURATION_SECONDS

\* time passes while a turn is running; the monitor reads the clock only
\* against turn_start_time, so the time that passes after a turn has run out
\* shows nothing new
TurnTick ==
    /\ \E r \in Rooms : TurnRunning(r)
    /\ now' = now + TickSeconds
    /\ UNCHANGED <<occupants, slvars, duelvars, lockvars, timervars>>

NextTurns ==
    \/ \E r \in Rooms, s \in Users : SlOpen(r, s)
    \/ \E r \in Rooms, s \in Users : Join(r, s)
    \/ \E u \in Users : ProfileReplySlJoin(u, UserIdOf(u))
    \/ \E r \in DOMAIN sl_game_state, s \in Users :
         \E order \in Perms(DOMAIN sl_game_state[r].players) :
            Start(r, s, order)
    \/ \E obj \in board_threads : InitialBoardSent(obj)
    \/ \E r \in Rooms, s \in Users : Roll(r, s)
    \/ \E th \in roll_threads, rolled \in Dice : PerformRoll(th, rolled)
    \/ \E r \in Rooms, s \in Users : Quit(r, s)
    \/ \E r \in Rooms, s \in Users, t \in Users : Kick(r, s, t)
    \/ \E r \in Rooms : Monitor(r)
    \/ TurnTick

SpecTurns == InitSL /\ [][NextTurns]_vars

\* the monitor loop, the clock and the worker threads run whenever they
\* can; nothing makes a user send a command
FairSpecTurns ==
    /\ SpecTurns
    /\ WF_vars(TurnTick)
    /\ WF_vars(\E r \in Rooms : Monitor(r))
    /\ WF_vars(\E obj \in board_threads : InitialBoardSent(obj))
    /\ WF_vars(\E th \in roll_threads, rolled \in Dice :
                  PerformRoll(th, rolled))

\* ------------------------------------------------------------------ claims
ActiveRooms == {r \in DOMAIN sl_game_state : sl_game_state[r].status = "active"}

\* the player whose turn it is, when current_turn_index points at one
HasCurrentPlayer(game) == game.current_turn_index < Len(game.turn_order)
CurrentPlayer(game) == game.turn_order[game.current_turn_index + 1]

\* 1-based place of key in order
PlaceOf(order, key) == CHOOSE i \in 1..Len(order) : order[i] = key

\* the first member of S that follows place i of order, cyclically
NextAfter(order, i, S) ==
    LET n == Len(order)
        at(d) == order[((i - 1 + d) % n) + 1]
        steps == {d \in 1..n : at(d) \in S}
    IN at(CHOOSE d \in steps : \A e \in steps : d <= e)

\* C1: in every state of an active game current_turn_index is a valid index
\* into turn_order, and the player at that index is in players with status
\* 'playing'.
C1_TurnIndexValid ==
    \A r \in ActiveRooms :
        LET game == sl_game_state[r] IN
        /\ HasCurrentPlayer(game)
        /\ CurrentPlayer(game) \in DOMAIN game.players
        /\ game.players[CurrentPlayer(game)].status = "playing"

\* C2: when perform_roll applies a roll of the current-turn player and the
\* game goes on, the turn passes to the next player in cyclic turn order
\* who is still playing: nobody who is playing is skipped.
C2_TurnPassesToNextPlaying ==
    [][\A th \in roll_threads : \A rolled \in Dice :
         LET r == th.room_id IN
         ( /\ PerformRoll(th, rolled)
           /\ r \in ActiveRooms
           /\ HasCurrentPlayer(sl_game_state[r])
           /\ CurrentPlayer(sl_game_state[r]) = Lower(th.sender)
           /\ r \in DOMAIN sl_game_state' )
         => LET before == sl_game_state[r]
                after == sl_game_state'[r]
            IN /\ HasCurrentPlayer(after)
               /\ CurrentPlayer(after) =
                      NextAfter(before.turn_order,
                                PlaceOf(before.turn_order, Lower(th.sender)),
                                PlayingKeys(after))]_vars

\* C3: in an active game a !roll of any user who is not the player at
\* turn_order[current_turn_index] is answered with 'not your turn' (and the
\* handler changes nothing: only an accepted roll has an effect).
C3_OutOfTurnRollRejected ==
    \A r \in ActiveRooms : \A s \in Users :
        LET game == sl_game_state[r] IN
        ~(HasCurrentPlayer(game) /\ CurrentPlayer(game) = Lower(s))
            => RollOutcome(game, s) = "not_your_turn"

\* C4: every recorded position is a square of the board, 1..100.
C4_PositionOnBoard ==
    \A r \in DOMAIN sl_game_state :
        \A k \in DOMAIN sl_game_state[r].players :
            sl_game_state[r].players[k].position
                \in SL_FIRST_SQUARE..SL_LAST_SQUARE

\* C4 witness: one roll has stopped on the last square and another has been
\* sent down the snake 99 -> 80
C4_Witness ==
    \E r \in DOMAIN sl_game_state :
        \E k, l \in DOMAIN sl_game_state[r].players :
            /\ sl_game_state[r].players[k].position = SL_LAST_SQUARE
            /\ sl_game_state[r].players[l].position = SNAKES_AND_LADDERS[99]

\* C5: a rank is given only to a player who was still playing, it is the
\* game's next_rank, which then goes up by one; next_rank never goes down;
\* the ranks of the finished players of a game are pairwise distinct.
C5_RanksInFinishingOrder ==
    [][\A r \in DOMAIN sl_game_state :
         ( /\ r \in DOMAIN sl_game_state'
           /\ sl_game_state'[r].obj = sl_game_state[r].obj )
         => LET before == sl_game_state[r]
                after == sl_game_state'[r]
            IN /\ after.next_rank >= before.next_rank
               /\ \A k \in DOMAIN after.players \cap DOMAIN before.players :
                    after.players[k].rank # before.players[k].rank
                    => /\ before.players[k].status = "playing"
                       /\ after.players[k].rank = before.next_rank
                       /\ after.next_rank = before.next_rank + 1
               /\ \A k, l \in DOMAIN after.players :
                    ( /\ k # l
                      /\ after.players[k].status = "finished"
                      /\ after.players[l].status = "finished" )
                    => after.players[k].rank # after.players[l].rank]_vars

\* C6: in an active game turn_order holds exactly the keys of the players
\* whose status is 'playing', each once.
C6_TurnOrderIsPlaying ==
    \A r \in ActiveRooms :
        LET game == sl_game_state[r] IN
        /\ {game.turn_order[i] : i \in 1..Len(game.turn_order)}
               = PlayingKeys(game)
        /\ Len(game.turn_order) = Cardinality(PlayingKeys(game))

\* C6 witness: an active game with a finished player still in players and
\* a turn order that lost a member
C6_Witness ==
    \E r \in ActiveRooms :
        /\ \E k \in DOMAIN sl_game_state[r].players :
               sl_game_state[r].players[k].status = "finished"
        /\ Len(sl_game_state[r].turn_order) = 2

\* C7: a game's players map never holds more than 10 entries, whatever the
\* order of the !j commands and of the profile replies that insert the
\* players.
C7_AtMostTenPlayers ==
    \A r \in DOMAIN sl_game_state :
        Cardinality(DOMAIN sl_game_state[r].players) <= SL_MAX_PLAYERS
C10_LeaverLosesDuelRemoved ==
    /\ \A r \in Rooms :
          (recv.op = "end_duel" /\ recv.caller = "userleave"
              /\ recv.room_id = r)
          ~> (r \notin DOMAIN emoji_duel_state)
    /\ [](recv.op = "end_duel" /\ recv.caller = "userleave"
             => recv.winner # recv.loser)
\* the game a roll was issued against is gone: deleted, replaced by another
\* game record of the room, or without the roller
GameGone(th) ==
    \/ th.room_id \notin DOMAIN sl_game_state
    \/ sl_game_state[th.room_id].obj # th.obj
    \/ Lower(th.sender) \notin DOMAIN sl_game_state[th.room_id].players

\* C15: when perform_roll takes sl_game_lock after the game it was issued
\* against is gone (deleted, the roller removed from it, or a new lobby in
\* the room), it changes no game state and raises no error.
C15_StaleRollIsNoOp ==
    [][\A th \in roll_threads : \A rolled \in Dice :
         (PerformRoll(th, rolled) /\ GameGone(th))
         => /\ PerformRollOutcome(th) = "return"
            /\ UNCHANGED sl_game_state]_vars
\* C17: within one turn the first and the final warning are each sent at
\* most once; the monitor eliminates the current player only after both
\* warnings of that turn and more than SL_TURN_DURATION_SECONDS; the warning
\* flags are reset whenever the turn passes to another player.
C17_WarningsOncePerTurn ==
    [][\A r \in ActiveRooms :
         LET before == sl_game_state[r] IN
         HasCurrentPlayer(before) =>
           /\ ( /\ Monitor(r)
                /\ r \in DOMAIN sl_game_state'
                      => CurrentPlayer(before)
                            \notin DOMAIN sl_game_state'[r].players )
              => /\ before.turn_first_warning_sent
                 /\ before.turn_second_warning_sent
                 /\ now - before.turn_start_time > SL_TURN_DURATION_SECONDS
           /\ ( /\ r \in DOMAIN sl_game_state'
                /\ sl_game_state'[r].obj = before.obj
                /\ sl_game_state'[r].status = "active"
                /\ HasCurrentPlayer(sl_game_state'[r]) )
              => LET after == sl_game_state'[r] IN
                 IF CurrentPlayer(after) # CurrentPlayer(before)
                 THEN /\ ~after.turn_first_warning_sent
                      /\ ~after.turn_second_warning_sent
                 ELSE /\ before.turn_first_warning_sent
                           => after.turn_first_warning_sent
                      /\ before.turn_second_warning_sent
                           => after.turn_second_warning_sent]_vars
\* the player who follows place i of order, wrapping to the first
Follower(order, i) == order[(i % Len(order)) + 1]

\* C20: when the player whose turn it is quits or is kicked and at least
\* two playing players remain, the player is removed from players and from
\* turn_order, and the turn passes at once to the player who followed in
\* turn order (wrapping to the first), with the turn clock and the warning
\* flags reset.
C20_CurrentPlayerLeaves ==
    [][\A r \in ActiveRooms : \A s \in Users : \A t \in Users :
         LET before == sl_game_state[r]
             key == IF Quit(r, s) THEN Lower(s) ELSE Lower(t)
         IN ( /\ Quit(r, s) \/ Kick(r, s, t)
              /\ HasCurrentPlayer(before)
              /\ CurrentPlayer(before) = key
              /\ Cardinality(PlayingKeys(before) \ {key}) >= SL_MIN_PLAYERS )
            => /\ r \in DOMAIN sl_game_state'
               /\ LET after == sl_game_state'[r] IN
                  /\ key \notin DOMAIN after.players
                  /\ \A i \in 1..Len(after.turn_order) :
                        after.turn_order[i] # key
                  /\ HasCurrentPlayer(after)
                  /\ CurrentPlayer(after) =
                        Follower(before.turn_order,
                                 before.current_turn_index + 1)
                  /\ after.turn_start_time = now
                  /\ ~after.turn_first_warning_sent
                  /\ ~after.turn_second_warning_sent]_vars

\* C20 witness: the current player of the game of three has left before
\* any roll, and the turn clock was started again at a later time
C20_Witness ==
    \E r \in ActiveRooms :
        LET game == sl_game_state[r] IN
        /\ Cardinality(DOMAIN game.players) = 2
        /\ Len(game.turn_order) = 2
        /\ game.next_rank = 1
        /\ game.turn_start_time > 1
        /\ ~game.turn_first_warning_sent
        /\ \A k \in DOMAIN game.players :
               game.players[k].position \in EndgameSquares
        /\ roll_count = 0

\* the record that the game-over sequence was run on last
LastGameOver == game_over_sent[Len(game_over_sent)]

\* C18: when the monitor eliminates the current player for inactivity and
\* exactly one player with status 'playing' is left, that player is marked
\* finished with rank next_rank, the game-over sequence runs once, and the
\* room's game record is removed.
C18_LastPlayerWinsByDefault ==
    [][\A r \in ActiveRooms :
         LET before == sl_game_state[r] IN
         ( /\ Monitor(r)
           /\ HasCurrentPlayer(before)
           /\ ( r \in DOMAIN sl_game_state'
                  => CurrentPlayer(before)
                        \notin DOMAIN sl_game_state'[r].players )
           /\ sl_game_state' # sl_game_state
           /\ Cardinality(PlayingKeys(before) \ {CurrentPlayer(before)}) = 1 )
         => /\ r \notin DOMAIN sl_game_state'
            /\ Len(game_over_sent') = Len(game_over_sent) + 1
            /\ LET final == game_over_sent'[Len(game_over_sent')]
               IN /\ final.room_id = r
                  /\ CurrentPlayer(before) \notin DOMAIN final.players
                  /\ \A k \in PlayingKeys(before) \ {CurrentPlayer(before)} :
                        /\ final.players[k].status = "finished"
                        /\ final.players[k].rank = before.next_rank]_vars

\* C18 witness: no roll was made, and the game-over sequence ran on a
\* record whose only player is finished with rank 1; the record is gone
C18_Witness ==
    /\ roll_count = 0
    /\ Len(game_over_sent) = 1
    /\ LastGameOver.room_id \notin DOMAIN sl_game_state
    /\ Cardinality(DOMAIN LastGameOver.players) = 1
    /\ \A k \in DOMAIN LastGameOver.players :
          /\ LastGameOver.players[k].status = "finished"
          /\ LastGameOver.players[k].rank = 1

\* the players of `game` who are still playing when `key` has moved by
\* `rolled`
PlayingAfterRoll(game, key, rolled) ==
    IF Remap(game.players[key].position + rolled) >= SL_LAST_SQUARE
    THEN PlayingKeys(game) \ {key} ELSE PlayingKeys(game)

\* C19: when a roll leaves at most one player with status 'playing', the
\* room's game record is removed (so no turn is started afterwards) and
\* every player in the final game record has status 'finished' with a rank,
\* the last remaining player receiving the next unused rank.
C19_RollEndsGame ==
    [][\A th \in roll_threads : \A rolled \in Dice :
         ( /\ PerformRoll(th, rolled)
           /\ PerformRollOutcome(th) = "applied"
           /\ Cardinality(PlayingAfterRoll(sl_game_state[th.room_id],
                                           Lower(th.sender), rolled)) <= 1 )
         => /\ th.room_id \notin DOMAIN sl_game_state'
            /\ Len(game_over_sent') = Len(game_over_sent) + 1
            /\ LET before == sl_game_state[th.room_id]
                   final == game_over_sent'[Len(game_over_sent')]
                   last == PlayingAfterRoll(before, Lower(th.sender), rolled)
               IN /\ DOMAIN final.players = DOMAIN before.players
                  /\ \A k \in DOMAIN final.players :
                        /\ final.players[k].status = "finished"
                        /\ final.players[k].rank >= 1
                  /\ \A k \in last :
                        /\ final.players[k].rank >= before.next_rank
                        /\ \A j \in DOMAIN final.players \ {k} :
                              final.players[j].rank
                                 # final.players[k].rank]_vars

\* C19 witness: two rolls were made, the game-over sequence ran on a
\* record of three players who hold the ranks 1, 2 and 3, and the record
\* is gone
C19_Witness ==
    /\ roll_count = 2
    /\ Len(game_over_sent) = 1
    /\ LastGameOver.room_id \notin DOMAIN sl_game_state
    /\ {LastGameOver.players[k].rank :
            k \in DOMAIN LastGameOver.players} = {1, 2, 3}
    /\ \A k \in DOMAIN LastGameOver.players :
          LastGameOver.players[k].status = "finished"

\* the locks thread t holds
HeldBy(t) == {lock \in Locks : LockHolder(lock) = t}

\* thread t is inside a step of the given kind
InStep(t, op) == Running(t) /\ CurrentStep(t).op = op

\* C11: in every reachable state, a thread that is inside a blocking step
\* (sleep, image render, upload, file I/O) holds neither sl_game_lock nor
\* emoji_duel_lock.
C11_NoBlockingUnderGameLock ==
    \A t \in Threads : InStep(t, "block") => HeldBy(t) \cap GameLocks = {}

\* C12: every write to a Snake & Ladder game record or to an Emoji Duel
\* record, from the receive path, the monitor and sweep loops or a worker
\* thread, happens while the thread holds the lock of that record.
C12_WritesUnderLock ==
    \A t \in Threads :
        InStep(t, "write") => CurrentStep(t).arg \in HeldBy(t)

\* thread t waits for a lock that another thread holds
WaitsFor(t, holder) ==
    /\ InStep(t, "acquire")
    /\ holder # t
    /\ LockHolder(CurrentStep(t).arg) = holder

\* C13: an operation on one room's game never waits for a game lock that
\* an operation on another room's game holds.
C13_RoomsDoNotWaitForEachOther ==
    \A t \in Threads : \A holder \in Threads :
        ( /\ WaitsFor(t, holder)
          /\ CurrentStep(t).arg \in GameLocks )
        => thread_at[holder].room = thread_at[t].room

\* C14: no thread holds two of presence_lock, sl_game_lock and
\* emoji_duel_lock at the same time.
C14_OneLockAtATime ==
    \A t \in Threads : Cardinality(HeldBy(t)) <= 1

\* C14 witness: the receive thread, in userjoin, has left presence_lock and
\* holds emoji_duel_lock, while the cleanup thread holds sl_game_lock
C14_Witness ==
    /\ thread_at["recv"].path = "userjoin"
    /\ HeldBy("recv") = {"emoji_duel_lock"}
    /\ HeldBy("cleanup") = {"sl_game_lock"}

\* C16: a timer-driven transition that fires for a room whose session was
\* already deleted (the turn monitor and the cleanup pass on a room without
\* a game, the WYR end timer on a room without a WYR game) changes no
\* session and raises no error, however many times it fires.
C16_TimerOnDeletedSessionIsNoOp ==
    [][\A r \in Rooms :
         ( \/ EndWyrGame(r) /\ r \notin DOMAIN wyr_game_state
           \/ MonitorOnDeleted(r)
           \/ CleanupOnDeleted(r) )
         => /\ UNCHANGED <<sl_game_state, emoji_duel_state, wyr_game_state,
                           game_over_sent, sl_replies, duel_announced>>
            /\ timer_error' = None]_vars

\* C16 witness: the S&L game and the WYR game of the room were deleted,
\* and after that the monitor has passed the room twice, the cleanup pass
\* has found nothing of the room, and a WYR end timer has fired
C16_Witness ==
    \E r \in Rooms :
        /\ r \notin DOMAIN sl_game_state
        /\ r \notin DOMAIN wyr_game_state
        /\ r \notin DOMAIN emoji_duel_state
        /\ now > DUEL_STALE_SECONDS
        /\ timer_calls["cleanup"] >= 1
        /\ timer_calls["sl_monitor"] >= 2
        /\ timer_calls["wyr_end"] >= 1
        /\ timer_error = None

\* the game records of the table, by the object they are
LiveRecords == {sl_game_state[r].obj : r \in DOMAIN sl_game_state}

C22_NoUnresolvedPlayer ==
    \A r \in DOMAIN sl_game_state :
        sl_game_state[r].status = "lobby"
        => \A k \in DOMAIN sl_game_state[r].players :
              sl_game_state[r].players[k].userid # None

\* the claim's condition for a !start by s to start `game`
StartAllowed(game, s) ==
    /\ Lower(s) = Lower(game.host)
    /\ game.status = "lobby"
    /\ Cardinality(DOMAIN game.players) >= 2
    /\ \A k \in DOMAIN game.players : game.players[k].userid # None

\* C23: a game goes from lobby to active only by a !start of the host while
\* the lobby has at least 2 players, all with a user id; every other !start
\* (not the host, fewer than 2 players, a player without user id, already
\* active) is refused and leaves the game record unchanged.  On success
\* turn_order holds each joined player's key exactly once and
\* current_turn_index is 0.
C23_StartOnlyByHostWhenReady ==
    [][\A r \in DOMAIN sl_game_state :
         LET before == sl_game_state[r] IN
         /\ ( /\ before.status = "lobby"
              /\ r \in DOMAIN sl_game_state'
              /\ sl_game_state'[r].status = "active" )
            => LET after == sl_game_state'[r] IN
               /\ \E s \in Users :
                     /\ StartAllowed(before, s)
                     /\ Start(r, s, after.turn_order)
               /\ after.players = before.players
               /\ Len(after.turn_order) = Cardinality(DOMAIN before.players)
               /\ {after.turn_order[i] : i \in 1..Len(after.turn_order)}
                     = DOMAIN before.players
               /\ after.current_turn_index = 0
         /\ \A s \in Users :
              /\ ~StartAllowed(before, s)
                   => StartOutcome(before, s) # "started"
              /\ StartRejected(r, s) => UNCHANGED sl_game_state]_vars

\* C23 witness: the host's !start was refused for a player without user
\* id and another user's !start was refused, and the game has since been
\* started with two players
C23_Witness ==
    \E r \in ActiveRooms :
        /\ [room_id |-> r, text |-> "Please wait"] \in sl_replies
        /\ [room_id |-> r, text |-> "Only the host"] \in sl_replies
        /\ Len(sl_game_state[r].turn_order) = 2
        /\ sl_game_state[r].obj \in board_threads

\* C24: !sl 1 in a room that has a Snake & Ladder game (lobby or active) is
\* refused and leaves the game record, with its host and players,
\* unchanged; no step puts another record in the place of a room's record.
C24_OpenLobbyRefused ==
    [][\A r \in DOMAIN sl_game_state :
         /\ \A s \in Users : SlOpenRejected(r, s) => UNCHANGED sl_game_state
         /\ r \in DOMAIN sl_game_state'
              => /\ sl_game_state'[r].obj = sl_game_state[r].obj
                 /\ sl_game_state'[r].host = sl_game_state[r].host]_vars

\* C24 witness: !sl 1 was refused in a room whose lobby has two players
C24_Witness ==
    \E r \in DOMAIN sl_game_state :
        /\ [room_id |-> r, text |-> "already running"] \in sl_replies
        /\ sl_game_state[r].status = "lobby"
        /\ Cardinality(DOMAIN sl_game_state[r].players) = 2

\* C25: a game record whose status is 'active' stays 'active' as long as it
\* is in the table, and its players never become more: a !j and a profile
\* reply that arrive after the start add no player.
C25_ActiveNeverBackToLobby ==
    [][\A r \in ActiveRooms :
         ( /\ r \in DOMAIN sl_game_state'
           /\ sl_game_state'[r].obj = sl_game_state[r].obj )
         => /\ sl_game_state'[r].status = "active"
            /\ DOMAIN sl_game_state'[r].players
                  \subseteq DOMAIN sl_game_state[r].players]_vars

\* C25 witness: in an active game a !j was refused, and the profile request
\* of a user who is not a player is still to be answered
C25_Witness ==
    \E r \in ActiveRooms :
        /\ [room_id |-> r, text |-> "already in progress"] \in sl_replies
        /\ \E key \in DOMAIN profile_request_context :
              /\ profile_request_context[key].type = "sl_join"
              /\ profile_request_context[key].room_id = r
              /\ key[2] \notin DOMAIN sl_game_state[r].players

\* the two participants of `duel`, as !cancelduel compares them
Participants(duel) == {Lower(duel.p1.name), Lower(duel.p2.name)}

\* C26: !cancelduel calls end_duel(room_id, was_cancelled=True) only when
\* both p1 and p2 have asked for the cancellation; the requests of one
\* participant, however often repeated, and of users who are not in the
\* duel never do.  What end_duel then announces is the cancellation: it
\* names no winner, and only an announcement of a champion starts the
\* card render.
C26_CancelNeedsBothParticipants ==
    [][\A r \in DOMAIN emoji_duel_state :
         LET duel == emoji_duel_state[r] IN
         /\ duel.cancel_requests \subseteq Participants(duel)
         /\ \A s \in Users :
              CancelDuel(r, s)
              => LET after == emoji_duel_state'[r] IN
                 /\ after.cancel_requests =
                        duel.cancel_requests \cup {Lower(s)}
                 /\ (recv'.op = "end_duel")
                       <=> (after.cancel_requests = Participants(duel))
                 /\ recv'.op = "end_duel"
                       => /\ recv'.caller = "!cancelduel"
                          /\ recv'.winner = None
                          /\ EndDuelAnnouncement(after, TRUE).kind
                                = "cancelled"
         /\ ( recv.op # "end_duel" /\ recv'.op = "end_duel"
                /\ recv'.caller = "!cancelduel" /\ recv'.room_id = r )
              => \E s \in Users : CancelDuel(r, s)]_vars

\* C26 witness: both participants have asked, and the handler has called
\* end_duel to cancel the duel
C26_Witness ==
    \E r \in DOMAIN emoji_duel_state :
        /\ recv.op = "end_duel"
        /\ recv.caller = "!cancelduel"
        /\ recv.room_id = r
        /\ emoji_duel_state[r].cancel_requests
              = Participants(emoji_duel_state[r])

\* the duel of room r has been without activity for more than 5 minutes
StaleDuel(r) ==
    /\ r \in DOMAIN emoji_duel_state
    /\ now - emoji_duel_state[r].last_activity > DUEL_STALE_SECONDS

\* C28: a duel, pending or active, that has been without activity for more
\* than 5 minutes is removed by the sweep, which sends one cancellation
\* notice for it; no notice is sent for a room without a duel, and the
\* sweep never removes a duel whose last activity is inside the window.
C28_StaleDuelSweptOnce ==
    /\ \A r \in Rooms : StaleDuel(r) ~> (r \notin DOMAIN emoji_duel_state)
    /\ [][\A r \in Rooms :
            /\ (DuelSweep /\ StaleDuel(r))
                 => /\ r \notin DOMAIN emoji_duel_state'
                    /\ duel_sent' = Append(duel_sent, InactivityNotice(r))
            /\ (DuelSweep /\ ~StaleDuel(r))
                 => UNCHANGED <<emoji_duel_state, duel_sent>>
            /\ duel_sent' # duel_sent
                 => (DuelSweep /\ \E q \in Rooms : StaleDuel(q))]_vars

\* the user who caught the round before the current round of room r, or
\* None
PrevRoundWinner(r) ==
    LET caught == SentOf("caught", r, emoji_duel_state[r].round - 1)
    IN IF caught = {} THEN None
       ELSE duel_sent[CHOOSE i \in caught : TRUE].winner

\* the stream of the current round of room r has been sent
StreamRevealed(r) == SentOf("stream", r, emoji_duel_state[r].round) # {}

C29_WyrOneGameAnnouncedOnce ==
    [][\A r \in Rooms :
         /\ WyrGenerated(r) => ~WyrActive(r)
         /\ (EndWyrGame(r) /\ EndWyrOutcome(r) = "ended") =>
                /\ now >= wyr_game_state[r].end_time
                /\ r \notin DOMAIN wyr_game_state'
         /\ ~EndWyrRace(r)]_vars

\* C30: a profile reply removes at most one descriptor and changes no other
\* one; the descriptor it removes has the lower-cased Username of the reply
\* as its target; whatever the reply does to a game, a duel or the room, it
\* does with a descriptor that it removes; and a reply whose Username is the
\* target of no descriptor leaves the table as it is
C30_DescriptorConsumedOnce ==
    [][\A u \in Users : \A uid \in {UserIdOf(u), None} :
         \A pending \in BOOLEAN :
           ProfileReply(u, uid, pending) =>
             LET removed == DOMAIN profile_request_context \
                               DOMAIN profile_request_context'
                 targeted == {k \in DOMAIN profile_request_context :
                                 k[2] = Lower(u)}
             IN /\ DOMAIN profile_request_context' \subseteq
                       DOMAIN profile_request_context
                /\ \A k \in DOMAIN profile_request_context' :
                      profile_request_context'[k] =
                          profile_request_context[k]
                /\ Cardinality(removed) <= 1
                /\ removed \subseteq targeted
                /\ (targeted # {} /\ ~pending) => removed # {}
                /\ (\/ sl_game_state' # sl_game_state
                    \/ sl_replies' # sl_replies
                    \/ emoji_duel_state' # emoji_duel_state)
                      => removed # {}]_vars

\* Yasin's !j and an !info about Yasin were both answered, each by a reply
\* of its own with the Username "Yasin", and no descriptor is left
C30_Witness ==
    /\ profile_request_context = EmptyDict
    /\ \E r \in DOMAIN sl_game_state :
          /\ "yasin" \in DOMAIN sl_game_state[r].players
          /\ [room_id |-> r, text |-> "has joined"] \in sl_replies
          /\ [room_id |-> r, text |-> "full_info"] \in sl_replies

\* the game records of room x: its Snake & Ladder game and its duel
RecordsOf(x) ==
    <<IF x \in DOMAIN sl_game_state THEN {sl_game_state[x]} ELSE {},
      IF x \in DOMAIN emoji_duel_state THEN {emoji_duel_state[x]} ELSE {}>>

\* the commands of room y, and the roll threads and the monitor pass that
\* work for room y
StepOfRoom(y) ==
    \/ \E s \in Users : SlOpen(y, s)
    \/ \E s \in Users : Join(y, s)
    \/ \E s \in Users : \E order \in Perms({"yasin", "bob"}) : Start(y, s, order)
    \/ \E s \in Users : Roll(y, s)
    \/ \E th \in roll_threads, rolled \in Dice :
         th.room_id = y /\ PerformRoll(th, rolled)
    \/ \E s \in Users : Quit(y, s)
    \/ \E s \in Users, t \in Users : Kick(y, s, t)
    \/ Monitor(y)
    \/ \E s \in Users, o \in Users : DuelChallenge(y, s, o)
    \/ \E s \in Users : CancelDuel(y, s)

\* C31: a Snake & Ladder or duel command of room y, a roll thread or a
\* monitor pass for room y, leaves the records of every other room as they
\* are; the initial-board thread of a game changes no room but the one that
\* holds that game; and a profile reply changes no room but one that a join
\* descriptor of the replying user names
C31_OtherRoomsUntouched ==
    [][\A x \in LockRooms :
         /\ \A y \in LockRooms \ {x} :
               RecordsOf(x)' = RecordsOf(x) \/ ~StepOfRoom(y)
         /\ \A obj \in board_threads :
               (/\ InitialBoardSent(obj)
                /\ ~(x \in DOMAIN sl_game_state /\ sl_game_state[x].obj = obj))
                  => RecordsOf(x)' = RecordsOf(x)
         /\ \A u \in Users :
               (/\ ProfileReplySlJoin(u, UserIdOf(u))
                /\ ~\E key \in DOMAIN profile_request_context :
                       /\ key[2] = Lower(u)
                       /\ profile_request_context[key].room_id = x)
                  => RecordsOf(x)' = RecordsOf(x)]_vars

\* r1 has started a game of its own and its first turn is stamped, a duel is
\* pending in r1, and the game of r2 has moved on: a roll was applied there
C31_Witness ==
    /\ "r1" \in DOMAIN sl_game_state
    /\ sl_game_state["r1"].status = "active"
    /\ sl_game_state["r1"].turn_start_time # 0
    /\ board_threads = {}
    /\ "r1" \in DOMAIN emoji_duel_state
    /\ "r2" \in DOMAIN sl_game_state
    /\ \E k \in DOMAIN sl_game_state["r2"].players :
          sl_game_state["r2"].players[k].position # 97

\* the square the table T and the end of the board give for a roll of r
\* from square p
SquareAfter(p, r) ==
    IF p + r \in DOMAIN SNAKES_AND_LADDERS THEN SNAKES_AND_LADDERS[p + r]
    ELSE IF p + r < 100 THEN p + r ELSE 100

\* the player record of k that a perform_roll step left behind: the one in
\* the game, or the one in the final standings when the roll ended the game
RecordedAfterRoll(room_id, k) ==
    IF room_id \in DOMAIN sl_game_state'
    THEN sl_game_state'[room_id].players[k]
    ELSE game_over_sent'[Len(game_over_sent')].players[k]

\* C32: a roll of r by a player on square p records T[p + r] when p + r is a
\* key of the table T, and the smaller of p + r and 100 otherwise
C32_RollLandsOnTableSquare ==
    [][\A th \in roll_threads : \A rolled \in DieFaces :
         (PerformRoll(th, rolled) /\ PerformRollOutcome(th) = "applied") =>
            RecordedAfterRoll(th.room_id, Lower(th.sender)).position =
               SquareAfter(sl_game_state[th.room_id]
                              .players[Lower(th.sender)].position, rolled)]_vars

\* Yasin's roll took the ladder from 3 to 16, or the snake from 99 to 80
C32_Witness ==
    /\ roll_count >= 1
    /\ roll_threads = {}
    /\ \E r \in DOMAIN sl_game_state :
          sl_game_state[r].players["yasin"].position \in {16, 80}

\* C34: a roll marks the roller finished and gives a rank only when the
\* sum of the square and the die is exactly 100; a roll whose sum exceeds 100
\* leaves the roller playing, without a rank, on a square not above 100
C34_FinishOnlyOnExactHundred ==
    [][\A th \in roll_threads : \A rolled \in DieFaces :
         (PerformRoll(th, rolled) /\ PerformRollOutcome(th) = "applied") =>
            LET before == sl_game_state[th.room_id].players[Lower(th.sender)]
                after == RecordedAfterRoll(th.room_id, Lower(th.sender))
            IN /\ after.position <= 100
               /\ (before.position + rolled > 100) =>
                     /\ after.status = "playing"
                     /\ after.rank = 0
               /\ (after.status = "finished" /\ before.status = "playing") =>
                     before.position + rolled = 100]_vars

\* the elements of a sequence
Range(seq) == {seq[i] : i \in 1..Len(seq)}

\* a is what is left of b when some of its elements are taken out; b has no
\* element twice
SubsequenceOf(a, b) == a = SelectSeq(b, LAMBDA k : k \in Range(a))

\* C33: while a game is active every step leaves a turn_order that is a
\* subsequence of the one before, so that turn_order is always a
\* subsequence of the order the shuffle fixed at start
C33_TurnOrderKeepsStartOrder ==
    [][\A r \in DOMAIN sl_game_state :
         (/\ sl_game_state[r].status = "active"
          /\ r \in DOMAIN sl_game_state'
          /\ sl_game_state'[r].obj = sl_game_state[r].obj)
            => SubsequenceOf(sl_game_state'[r].turn_order,
                             sl_game_state[r].turn_order)]_vars

\* a game of three goes on with two players in turn_order after a turn
\* advance: the third has finished or was eliminated
C33_Witness ==
    \E r \in DOMAIN sl_game_state :
       /\ sl_game_state[r].status = "active"
       /\ Cardinality(DOMAIN sl_game_state[r].players) = 3
       /\ Len(sl_game_state[r].turn_order) = 2
       /\ sl_game_state[r].turn_start_time > 1

\* C35: no thread stands at the acquire of a lock that it holds itself; the
\* locks are threading.Lock objects, so such a thread would wait for ever
C35_NoSelfAcquire ==
    \A t \in Threads :
       InStep(t, "acquire") => CurrentStep(t).arg \notin HeldBy(t)

\* the duel of room r has been accepted and is not over
ActiveDuel(r) ==
    /\ r \in DOMAIN emoji_duel_state
    /\ emoji_duel_state[r].status = "active"

\* C36: a duel that has become active gets its first round, and its record
\* is removed in the end
C36_ActiveDuelTerminates ==
    \A r \in Rooms :
       /\ (ActiveDuel(r) /\ emoji_duel_state[r].round = 0)
             ~> (~ActiveDuel(r) \/ emoji_duel_state[r].round >= 1)
       /\ ActiveDuel(r) ~> (r \notin DOMAIN emoji_duel_state)

\* C37: every roll that perform_roll applies is a roll of the player whose
\* turn it is: applying a roll passes the turn on, so that a turn takes one
\* roll, also when the player sent !roll again before the first perform_roll
\* had taken the lock
C37_OneRollPerTurn ==
    [][\A th \in roll_threads : \A rolled \in DieFaces :
         (PerformRoll(th, rolled) /\ PerformRollOutcome(th) = "applied") =>
            LET game == sl_game_state[th.room_id]
            IN /\ HasCurrentPlayer(game)
               /\ CurrentPlayer(game) = Lower(th.sender)]_vars

\* C38: when a player whose turn it is not quits or is kicked and at least
\* two playing players remain, the game goes on and the turn is still with
\* the player who had it
C38_OtherPlayerLeavesTurnStays ==
    [][\A r \in ActiveRooms : \A s \in Users : \A t \in Users :
         LET before == sl_game_state[r]
             key == IF Quit(r, s) THEN Lower(s) ELSE Lower(t)
         IN ( /\ Quit(r, s) \/ Kick(r, s, t)
              /\ HasCurrentPlayer(before)
              /\ CurrentPlayer(before) # key
              /\ Cardinality(PlayingKeys(before) \ {key}) >= SL_MIN_PLAYERS )
            => /\ r \in DOMAIN sl_game_state'
               /\ HasCurrentPlayer(sl_game_state'[r])
               /\ CurrentPlayer(sl_game_state'[r]) =
                     CurrentPlayer(before)]_vars

\* the game of room r is active, with current_turn_index i in a turn_order
\* of n players
TurnAt(r, i, n) ==
    /\ r \in DOMAIN sl_game_state
    /\ sl_game_state[r].status = "active"
    /\ sl_game_state[r].current_turn_index = i
    /\ Len(sl_game_state[r].turn_order) = n

ScoresOf(r) == <<emoji_duel_state[r].p1.score, emoji_duel_state[r].p2.score>>

\* the catches credited in the running round of room r
CaughtInRound(r) == SentOf("caught", r, emoji_duel_state[r].round)

====
